---- MODULE Spec2Model ----
(***************************************************************************)
(* State-machine model of the AstraLLM trading controller: the position   *)
(* ledger of core/risk_manager.py, the reconciliation and signal          *)
(* execution of bot/trading_bot.py and the strategy scorer of             *)
(* core/strategy_selector.py.                                             *)
(*                                                                         *)
(* Python floats are modelled as exact rationals [n |-> Int, d |-> Nat],  *)
(* kept in lowest terms so that equal values are equal records.           *)
(***************************************************************************)
EXTENDS Integers, Sequences, FiniteSets, TLC

(***************************************************************************)
(* Rational arithmetic standing for Python float arithmetic.              *)
(***************************************************************************)
AbsInt(x) == IF x < 0 THEN -x ELSE x

RECURSIVE Gcd(_, _)
Gcd(a, b) == IF b = 0 THEN a ELSE Gcd(b, a % b)

Rat(n, d) ==
    IF d = 1 THEN [n |-> n, d |-> 1]
    ELSE LET s == IF d < 0 THEN -1 ELSE 1
             g == Gcd(AbsInt(n), AbsInt(d))
         IN  [n |-> (s * n) \div g, d |-> (s * d) \div g]

Zero == [n |-> 0, d |-> 1]
One == [n |-> 1, d |-> 1]
FromInt(i) == [n |-> i, d |-> 1]

RatAdd(a, b) ==
    IF a.d = b.d THEN Rat(a.n + b.n, a.d) ELSE Rat(a.n * b.d + b.n * a.d, a.d * b.d)
RatSub(a, b) == Rat(a.n * b.d - b.n * a.d, a.d * b.d)
RatMul(a, b) == Rat(a.n * b.n, a.d * b.d)
\* a / b; the callers guard b # 0 (Python raises ZeroDivisionError there)
RatDiv(a, b) == Rat(a.n * b.d, a.d * b.n)
RatLt(a, b) == a.n * b.d < b.n * a.d
RatLe(a, b) == a.n * b.d <= b.n * a.d
RatAbs(a) == [n |-> AbsInt(a.n), d |-> a.d]
RatMin(a, b) == IF RatLe(a, b) THEN a ELSE b
RatMax(a, b) == IF RatLe(a, b) THEN b ELSE a

(***************************************************************************)
(* Configuration injected into RiskManager by TradingBot.__init__.         *)
(***************************************************************************)
\* RiskManager.initial_capital: the capital of the daily-loss example, -20 being its 2%
InitialCapital == 1000
\* Settings.max_leverage
MaxLeverage == 5
\* Settings.risk_per_trade = 0.005
RiskPerTrade == Rat(5, 1000)
\* Settings.max_daily_loss = 0.02
MaxDailyLoss == Rat(2, 100)
\* Settings.max_open_positions
MaxOpenPositions == 2
\* default maintenance_margin_rate = 0.005 of calculate_liquidation_price
MaintenanceMarginRate == Rat(5, 1000)

\* None for a string-valued field; an optional float is <<>> (None) or <<x>>
None == "None"
NoFloat == <<>>
Some(x) == <<x>>
Symbols == {"BTCUSDT", "ETHUSDT"}
Sides == {"LONG", "SHORT"}

(***************************************************************************)
(* Bounds of the model.                                                    *)
(***************************************************************************)
\* closes recorded in the trade history before the model stops closing
MaxTrades == 1
\* opens counted by daily_trades before the model stops opening
MaxDailyTrades == 1
\* outcomes recorded for the strategies before the model stops recording
MaxOutcomes == 13
\* regime updates recorded in regime_history before the model stops passing timestamps
MaxHistory == 13
MaxAnalysisWins == 1
\* entries on the same symbol before the model stops entering
MaxRoundTrips == 2

VARIABLES
    positions,        \* RiskManager.positions: dict symbol -> Position, in insertion order
    trades,           \* RiskManager.trades
    current_capital,  \* RiskManager.current_capital
    daily_pnl,        \* RiskManager.daily_pnl
    daily_trades,     \* RiskManager.daily_trades
    day_elapsed,      \* datetime.now() - RiskManager.last_reset > timedelta(days=1)
    dry_run,          \* TradingBot.dry_run
    phase,            \* "constructing" until TradingBot.__init__ has synced, then "running"
    lastCall,         \* the last handler called and what it returned or logged
    exchange_calls,   \* the create_order, cancel_order and change_leverage requests it made
    db_trades,        \* the rows this process has inserted into the trades table
    user_trades,      \* the exchange's /fapi/v3/userTrades list for ETHUSDT, oldest first
    strategies,       \* StrategySelector.strategies: the registered names, in dict order
    strategy_stats,   \* StrategySelector.strategy_stats: name -> stats
    selected,         \* the strategy name the last select_strategy returned, None before
    analysis,         \* the calls and the result of the last analyze_with_best_strategy
    entry_point,      \* how the process was started: "main" (src/main.py), "api" (uvicorn)
    is_running,       \* TradingBot.is_running
    loop_pc,          \* where the thread that runs TradingBot.start is
    remaining,        \* the symbols the for loop of analyze_markets has still to visit
    analysis_log,     \* what that for loop did for each symbol in the current iteration
    iteration_error,  \* the last iteration ended in the except branch of start
    request,          \* a GET /positions request: "none", "pending" or "served"
    current_regime,   \* MarketRegimeDetector.current_regime
    current_confidence, \* MarketRegimeDetector.regime_confidence
    regime_history    \* MarketRegimeDetector.regime_history, without the timestamps

selectorVars == <<strategies, strategy_stats, selected, analysis>>

regimeVars == <<current_regime, current_confidence, regime_history>>

loopVars == <<entry_point, is_running, loop_pc, remaining, analysis_log, iteration_error,
              request>>

ledgerVars == <<positions, trades, current_capital, daily_pnl, daily_trades,
                day_elapsed, dry_run, phase, lastCall, exchange_calls, db_trades,
                user_trades>>

(***************************************************************************)
(* The positions dict: a sequence of Position records keyed by symbol.     *)
(***************************************************************************)
Keys(d) == {d[i].symbol : i \in 1..Len(d)}
HasKey(d, k) == k \in Keys(d)
Get(d, k) == d[CHOOSE i \in 1..Len(d) : d[i].symbol = k]
\* d[k] = v: replaces the value of an existing key in place, appends a new key
DictSet(d, k, v) ==
    IF HasKey(d, k)
    THEN [i \in 1..Len(d) |-> IF d[i].symbol = k THEN v ELSE d[i]]
    ELSE Append(d, v)
\* a del d[k] that deletes nothing
DictDelNothing(d, k) == d
\* del d[k]
DictDel(d, k) == SelectSeq(d, LAMBDA p : p.symbol # k)

(***************************************************************************)
(* RiskManager (core/risk_manager.py).  Its methods are operators on the   *)
(* ledger record L, so that a handler can call several of them in turn.    *)
(***************************************************************************)
Ledger ==
    [positions |-> positions, trades |-> trades, current_capital |-> current_capital,
     daily_pnl |-> daily_pnl, daily_trades |-> daily_trades, day_elapsed |-> day_elapsed]

reset_daily_stats(L) ==
    IF L.day_elapsed
    THEN [L EXCEPT !.daily_pnl = Zero, !.daily_trades = 0, !.day_elapsed = FALSE]
    ELSE L

\* can_open_position with a capital floor that lets a capital of exactly half pass
can_open_gates_floor_exclusive(L, symbol) ==
    IF RatLt(L.daily_pnl, RatSub(Zero, RatMul(FromInt(InitialCapital), MaxDailyLoss)))
    THEN "Daily loss limit reached"
    ELSE IF Len(L.positions) >= MaxOpenPositions
    THEN "Max positions limit reached"
    ELSE IF HasKey(L.positions, symbol)
    THEN "Already in position"
    ELSE IF RatLt(L.current_capital, RatMul(FromInt(InitialCapital), Rat(1, 2)))
    THEN "Capital too low"
    ELSE "ok"

\* can_open_position without its daily-loss gate
can_open_gates_without_daily_loss(L, symbol) ==
    IF Len(L.positions) >= MaxOpenPositions
    THEN "Max positions limit reached"
    ELSE IF HasKey(L.positions, symbol)
    THEN "Already in position"
    ELSE IF RatLe(L.current_capital, RatMul(FromInt(InitialCapital), Rat(1, 2)))
    THEN "Capital too low"
    ELSE "ok"

\* can_open_position without its per-symbol exclusivity gate
can_open_gates_without_exclusivity(L, symbol) ==
    IF RatLt(L.daily_pnl, RatSub(Zero, RatMul(FromInt(InitialCapital), MaxDailyLoss)))
    THEN "Daily loss limit reached"
    ELSE IF Len(L.positions) >= MaxOpenPositions
    THEN "Max positions limit reached"
    ELSE IF RatLe(L.current_capital, RatMul(FromInt(InitialCapital), Rat(1, 2)))
    THEN "Capital too low"
    ELSE "ok"

\* the four gates of can_open_position, read on the ledger after the reset: the warning
\* the first failing gate logs, or "ok"
can_open_gates(L, symbol) ==
    IF RatLt(L.daily_pnl, RatSub(Zero, RatMul(FromInt(InitialCapital), MaxDailyLoss)))
    THEN "Daily loss limit reached"
    ELSE IF Len(L.positions) >= MaxOpenPositions
    THEN "Max positions limit reached"
    ELSE IF HasKey(L.positions, symbol)
    THEN "Already in position"
    ELSE IF RatLe(L.current_capital, RatMul(FromInt(InitialCapital), Rat(1, 2)))
    THEN "Capital too low"
    ELSE "ok"

\* result is the returned bool; log is the warning of the gate that failed
can_open_position(L, symbol) ==
    LET R == reset_daily_stats(L)
        log == can_open_gates(R, symbol)
    IN  [ledger |-> R, result |-> (log = "ok"), log |-> log]

\* raises stands for the ZeroDivisionError of a zero entry, stop distance or leverage
calculate_position_size(L, entry_price, stop_loss, leverage, volatility) ==
    LET risk0 == RatMul(L.current_capital, RiskPerTrade)
        risk_amount ==
            IF volatility # Zero
            THEN RatMul(risk0, RatMax(Rat(1, 2), RatSub(One, RatMul(volatility, FromInt(2)))))
            ELSE risk0
    IN  IF entry_price = Zero \/ entry_price = stop_loss \/ leverage = 0
        THEN [raises |-> TRUE, quantity |-> Zero]
        ELSE LET stop_distance == RatDiv(RatAbs(RatSub(entry_price, stop_loss)), entry_price)
                 position_value == RatDiv(risk_amount, stop_distance)
                 quantity == RatDiv(position_value, entry_price)
                 leverage_adjustment == RatMin(One, Rat(20, leverage))
             IN  [raises |-> FALSE, quantity |-> RatMul(quantity, leverage_adjustment)]

\* the liquidation price with the two sides exchanged
calculate_liquidation_price_sides_swapped(entry_price, leverage, side) ==
    IF side = "SHORT"
    THEN RatMul(entry_price, RatAdd(RatSub(One, Rat(1, leverage)), MaintenanceMarginRate))
    ELSE RatMul(entry_price, RatSub(RatAdd(One, Rat(1, leverage)), MaintenanceMarginRate))

calculate_liquidation_price(entry_price, leverage, side) ==
    IF side = "LONG"
    THEN RatMul(entry_price, RatAdd(RatSub(One, Rat(1, leverage)), MaintenanceMarginRate))
    ELSE RatMul(entry_price, RatSub(RatAdd(One, Rat(1, leverage)), MaintenanceMarginRate))

\* the check with strict comparisons: a stop on the liquidation price passes
stop_beyond_liquidation_strict(side, stop_loss, liquidation_price) ==
    IF side = "LONG"
    THEN RatLt(stop_loss, liquidation_price)
    ELSE RatLt(liquidation_price, stop_loss)

\* the stop-before-liquidation check of open_position: TRUE when the open is refused
stop_beyond_liquidation(side, stop_loss, liquidation_price) ==
    IF side = "LONG"
    THEN RatLe(stop_loss, liquidation_price)
    ELSE RatLe(liquidation_price, stop_loss)

Position(symbol, side, entry_price, quantity, leverage, stop_loss, take_profit, liquidation_price, unrealized_pnl, strategy, sl_order_id, tp_order_id) ==
    [symbol |-> symbol, side |-> side, entry_price |-> entry_price, quantity |-> quantity,
     leverage |-> leverage, stop_loss |-> stop_loss, take_profit |-> take_profit,
     unrealized_pnl |-> unrealized_pnl, liquidation_price |-> liquidation_price,
     strategy |-> strategy, sl_order_id |-> sl_order_id, tp_order_id |-> tp_order_id]

open_position(L, symbol, side, entry_price, quantity, leverage, stop_loss, take_profit, strategy) ==
    \* result "opened" returns the Position; any other result is the log of a refusal,
    \* which returns None
    LET can == can_open_position(L, symbol)
        R == can.ledger
        liquidation_price == calculate_liquidation_price(entry_price, leverage, side)
        position == Position(symbol, side, entry_price, quantity, leverage, stop_loss,
                             take_profit, liquidation_price, Zero, strategy, None, None)
    IN  IF ~can.result
        THEN [ledger |-> R, result |-> can.log]
        ELSE IF stop_beyond_liquidation(side, stop_loss, liquidation_price)
        THEN [ledger |-> R, result |-> "Stop loss too close to liquidation"]
        ELSE [ledger |-> [R EXCEPT !.positions = DictSet(R.positions, symbol, position),
                                   !.daily_trades = R.daily_trades + 1],
              result |-> "opened"]

pnl_per_unit(position, price) ==
    IF position.side = "LONG"
    THEN RatSub(price, position.entry_price)
    ELSE RatSub(position.entry_price, price)

\* a Trade that records the exit price as its entry price
TradeEntryFromExit(position, exit_price, pnl, pnl_percentage, strategy) ==
    [symbol |-> position.symbol, side |-> position.side, entry_price |-> exit_price,
     exit_price |-> exit_price, quantity |-> position.quantity, leverage |-> position.leverage,
     pnl |-> pnl, pnl_percentage |-> pnl_percentage, strategy |-> strategy]

Trade(position, exit_price, pnl, pnl_percentage, strategy) ==
    [symbol |-> position.symbol, side |-> position.side, entry_price |-> position.entry_price,
     exit_price |-> exit_price, quantity |-> position.quantity, leverage |-> position.leverage,
     pnl |-> pnl, pnl_percentage |-> pnl_percentage, strategy |-> strategy]

\* the pnl of close_position that treats a realized PnL of zero as absent
trade_pnl_if_truthy(position, exit_price, realized_pnl) ==
    IF realized_pnl # NoFloat /\ realized_pnl # Some(Zero)
    THEN realized_pnl[1]
    ELSE RatMul(pnl_per_unit(position, exit_price), position.quantity)

\* the pnl of close_position: the exchange's realized PnL when given, else computed
trade_pnl(position, exit_price, realized_pnl) ==
    IF realized_pnl # NoFloat
    THEN realized_pnl[1]
    ELSE RatMul(pnl_per_unit(position, exit_price), position.quantity)

\* a failed save that undoes the close in memory
after_failed_save_rolls_back(before, closed) == before

\* except Exception: logger.error("Failed to save trade to database"); the close stands
after_failed_save(before, closed) == closed

\* realized_pnl is NoFloat or Some(x); result is "none" (returns None), "raise"
\* (ZeroDivisionError on a zero notional or entry price) or "trade" (returns the Trade).
\* save_ok tells whether db_manager.save_trade inserts the row; saved tells whether the trade
\* reached the trades table.
close_position(L, symbol, exit_price, strategy, realized_pnl, save_ok) ==
    IF ~HasKey(L.positions, symbol)
    THEN [ledger |-> L, result |-> "none", saved |-> FALSE]
    ELSE LET position == Get(L.positions, symbol)
             notional == RatMul(position.entry_price, position.quantity)
             raises == IF realized_pnl # NoFloat THEN notional = Zero
                                                 ELSE position.entry_price = Zero
             pnl == trade_pnl(position, exit_price, realized_pnl)
             pnl_percentage ==
                    IF realized_pnl # NoFloat
                    THEN RatMul(RatDiv(pnl, notional), FromInt(100))
                    ELSE RatMul(RatDiv(pnl_per_unit(position, exit_price), position.entry_price),
                                FromInt(100))
             trade == Trade(position, exit_price, pnl, pnl_percentage, strategy)
             closed == [L EXCEPT !.current_capital = RatAdd(L.current_capital, pnl),
                                 !.daily_pnl = RatAdd(L.daily_pnl, pnl),
                                 !.trades = Append(L.trades, trade),
                                 !.positions = DictDel(L.positions, symbol)]
         IN  IF raises
             THEN [ledger |-> L, result |-> "raise", saved |-> FALSE]
             ELSE [ledger |-> IF save_ok THEN closed ELSE after_failed_save(L, closed),
                   result |-> "trade", saved |-> save_ok]

\* an update that also drags the stop-loss to the current price
update_position_moves_stop(L, symbol, current_price) ==
    IF ~HasKey(L.positions, symbol)
    THEN L
    ELSE LET position == Get(L.positions, symbol)
             updated == [position EXCEPT !.unrealized_pnl =
                            RatMul(pnl_per_unit(position, current_price), position.quantity),
                                         !.stop_loss = current_price]
         IN  [L EXCEPT !.positions = DictSet(L.positions, symbol, updated)]

update_position(L, symbol, current_price) ==
    IF ~HasKey(L.positions, symbol)
    THEN L
    ELSE LET position == Get(L.positions, symbol)
             updated == [position EXCEPT !.unrealized_pnl =
                            RatMul(pnl_per_unit(position, current_price), position.quantity)]
         IN  [L EXCEPT !.positions = DictSet(L.positions, symbol, updated)]

(***************************************************************************)
(* Inputs: what strategies, the API caller and the exchange may hand in.   *)
(***************************************************************************)
EntryPrice == FromInt(200)
TickerPrices == {FromInt(200)}
MarkPrices == {FromInt(210)}
ExitPrices == {FromInt(190)}
Volatilities == {Rat(1, 10)}

\* a signal dict as validate_signal accepts it
Signal(action, stop_loss, take_profit, leverage) ==
    [action |-> action, entry_price |-> EntryPrice, stop_loss |-> stop_loss,
     take_profit |-> take_profit, leverage |-> leverage, confidence |-> Rat(7, 10),
     reason |-> "signal"]

\* BaseStrategy.validate_signal
validate_signal(signal) ==
    /\ \A key \in {"action", "entry_price", "stop_loss", "leverage", "confidence", "reason"} :
            key \in DOMAIN signal
    /\ signal.action \in {"LONG", "SHORT"}
    /\ ~(signal.leverage <= 0 \/ signal.leverage > 100)
    /\ ~(RatLt(signal.confidence, Zero) \/ RatLt(One, signal.confidence))

\* a dict without one of its keys
WithoutKey(signal, key) == [k \in DOMAIN signal \ {key} |-> signal[k]]

\* what analyze_markets hands to execute_signal: <<symbol, signal, strategy name>>.
\* Breakout Scalping trades at 20x, where the liquidation price of a SHORT entered at 200
\* is 209; the stops sit on it and one step inside it.
StrategySignals ==
    {<<"ETHUSDT", Signal("SHORT", FromInt(sl), Some(FromInt(170)), 20), "Breakout Scalping">> :
        sl \in {209, 208}}

\* what api/main.py manual_trade hands to execute_signal: side, leverage and stop are the
\* caller's.  At 5x the liquidation price of a LONG entered at 200 is 161.
ManualSignals ==
    {<<"BTCUSDT", Signal("LONG", FromInt(sl), NoFloat, 5), "manual">> : sl \in {161, 162}}

\* what the analyze of a strategy may build before it validates: a well-formed signal, one
\* with leverage 0 or 101, one with confidence 3/2, and one that lacks its reason
BuiltSignals ==
    StrategySignals
        \cup {<<"ETHUSDT", [Signal("SHORT", FromInt(208), Some(FromInt(170)), 20)
                                EXCEPT !.leverage = leverage], "Breakout Scalping">> :
                leverage \in {0, 101}}
        \cup {<<"ETHUSDT", [Signal("SHORT", FromInt(208), Some(FromInt(170)), 20)
                                EXCEPT !.confidence = Rat(3, 2)], "Breakout Scalping">>,
               <<"ETHUSDT", WithoutKey(Signal("SHORT", FromInt(208), Some(FromInt(170)), 20),
                                       "reason"), "Breakout Scalping">>}

\* manual trades whose caller asks for 125x with a stop at 199.5, or for 0x: manual_trade
\* checks the side only, and sets confidence 1.0 and the reason itself
RequestedSignals ==
    ManualSignals
        \cup {<<"BTCUSDT", [Signal("LONG", Rat(399, 2), NoFloat, leverage)
                                EXCEPT !.confidence = One, !.reason = "Manual trade"],
                 "manual">> : leverage \in {125, 0}}

\* /fapi/v3/userTrades entries
FillLoss == [price |-> FromInt(182), realizedPnl |-> FromInt(-20)]
FillFee == [price |-> FromInt(182), realizedPnl |-> FromInt(-5)]
FillFlat == [price |-> FromInt(190), realizedPnl |-> FromInt(0)]
\* what the fills request answers: an exception, or a list of fills (possibly empty)
FillResponses ==
    {[error |-> TRUE, fills |-> <<>>]}
        \cup {[error |-> FALSE, fills |-> f] :
                f \in {<<>>, <<FillLoss>>, <<FillLoss, FillFee>>, <<FillFlat>>}}

\* entries of get_position_info at startup, with the SL/TP order ids get_open_orders finds
ExchangePosition(symbol, positionAmt, leverage, liquidationPrice, sl, tp) ==
    [symbol |-> symbol, positionAmt |-> positionAmt, entryPrice |-> EntryPrice,
     leverage |-> leverage, unRealizedProfit |-> Zero,
     liquidationPrice |-> FromInt(liquidationPrice), sl_order_id |-> sl, tp_order_id |-> tp]

\* an entry without position, a SHORT at 20x with its resting orders, a LONG at 100x
FlatBTC == ExchangePosition("BTCUSDT", 0, 5, 0, None, None)
ShortETH == ExchangePosition("ETHUSDT", -1, 20, 209, "SL1", "TP1")
LongBTC == ExchangePosition("BTCUSDT", 1, 100, 199, None, None)
ShortSOL == ExchangePosition("SOLUSDT", -1, 20, 209, None, None)

\* an entry of get_open_orders
Order(symbol, type, orderId) == [symbol |-> symbol, type |-> type, orderId |-> orderId]

\* what get_open_orders answers at startup: the resting orders of the SHORT and a limit
\* order on its symbol, and a stop order left behind on BTCUSDT
RestingOrders ==
    <<Order("ETHUSDT", "STOP_MARKET", "SL1"), Order("BTCUSDT", "STOP_MARKET", "SL2"),
      Order("ETHUSDT", "LIMIT", "L1"), Order("ETHUSDT", "TAKE_PROFIT_MARKET", "TP1")>>
OpenOrders == {<<>>, RestingOrders}
\* the order ids whose cancel request fails
\* the symbols whose trade the database accepts during one check_positions: none or all
DatabaseAnswers == {{}, Symbols}

FailingCancels == {{}, {"SL1"}}

\* what get_position_info answers at startup: an account without open positions
FlatReports == {<<>>, <<FlatBTC>>}
\* what get_position_info answers at startup: an account that may hold positions
ExchangeReports == FlatReports \cup {<<FlatBTC, ShortETH>>, <<LongBTC>>, <<LongBTC, ShortETH>>}

(***************************************************************************)
(* TradingBot (bot/trading_bot.py) and the API handlers that reach the     *)
(* ledger (api/main.py).                                                   *)
(***************************************************************************)
Call(op, result) == [op |-> op, result |-> result]

\* a request to the exchange that changes something there: what is "MARKET", "STOP_MARKET"
\* or "TAKE_PROFIT_MARKET" for create_order, the order id for cancel_order
ExchangeCall(name, symbol, what) == [call |-> name, symbol |-> symbol, what |-> what]

\* a bot that takes the live branch whatever its dry_run flag says
live_always(flag) == TRUE

\* if not self.dry_run
live(flag) == ~flag

SetLedger(L) ==
    /\ positions' = L.positions
    /\ trades' = L.trades
    /\ current_capital' = L.current_capital
    /\ daily_pnl' = L.daily_pnl
    /\ daily_trades' = L.daily_trades
    /\ day_elapsed' = L.day_elapsed

\* the Position sync_positions_from_exchange rebuilds from one exchange entry
recovered_position(pos) ==
    LET side == IF pos.positionAmt > 0 THEN "LONG" ELSE "SHORT"
        stop_loss == IF side = "LONG" THEN RatMul(pos.entryPrice, Rat(985, 1000))
                                      ELSE RatMul(pos.entryPrice, Rat(1015, 1000))
        take_profit == IF side = "LONG" THEN RatMul(pos.entryPrice, Rat(1015, 1000))
                                        ELSE RatMul(pos.entryPrice, Rat(985, 1000))
    IN  Position(pos.symbol, side, pos.entryPrice, FromInt(AbsInt(pos.positionAmt)),
                 pos.leverage, stop_loss, Some(take_profit), pos.liquidationPrice,
                 pos.unRealizedProfit, "recovered", pos.sl_order_id, pos.tp_order_id)

RECURSIVE sync_positions(_, _)
\* the loop of sync_positions_from_exchange over the exchange's entries
sync_positions(d, reported) ==
    IF reported = <<>> THEN d
    ELSE LET pos == Head(reported)
         IN  IF pos.positionAmt = 0
             THEN sync_positions(d, Tail(reported))
             ELSE sync_positions(DictSet(d, pos.symbol, recovered_position(pos)), Tail(reported))

\* a clean-up loop that gives up at the first cancel request that fails
after_failed_cancel_stops(rest) == <<>>

\* the except branch inside the loop of cleanup_orphan_orders logs the failure; the loop goes
\* on with the orders behind it
after_failed_cancel(rest) == rest

RECURSIVE cancel_orphaned(_, _)
\* the loop over orphaned_orders: the cancel requests it sends, failing being the order ids
\* whose cancel_order raises
cancel_orphaned(orphaned_orders, failing) ==
    IF orphaned_orders = <<>>
    THEN {}
    ELSE LET orphan == Head(orphaned_orders)
             rest == IF orphan.orderId \in failing
                     THEN after_failed_cancel(Tail(orphaned_orders))
                     ELSE Tail(orphaned_orders)
         IN  {ExchangeCall("cancel_order", orphan.symbol, orphan.orderId)}
                \cup cancel_orphaned(rest, failing)

\* cleanup_orphan_orders: the cancel requests it sends, given what get_position_info and
\* get_open_orders answer
cleanup_orphan_orders(reported, all_orders, failing) ==
    LET active_positions == {reported[i].symbol :
                                i \in {j \in 1..Len(reported) : reported[j].positionAmt # 0}}
        orphaned_orders ==
            SelectSeq(all_orders,
                      LAMBDA order : /\ order.type \in {"STOP_MARKET", "TAKE_PROFIT_MARKET"}
                                     /\ order.symbol \notin active_positions)
    IN  IF live(dry_run) THEN cancel_orphaned(orphaned_orders, failing) ELSE {}

\* TradingBot.__init__: the startup recovery, then the clean-up of orphaned orders.
\* request_ok = FALSE is a failing get_position_info in the recovery, cleanup_ok = FALSE a
\* failing request in the clean-up
SyncPositionsFromExchange(request_ok, reported, cleanup_ok, all_orders, failing) ==
    /\ phase = "constructing"
    /\ positions' = IF request_ok THEN sync_positions(positions, reported) ELSE positions
    /\ phase' = "running"
    /\ lastCall' = Call("sync_positions_from_exchange", IF request_ok THEN "ok" ELSE "error")
    /\ exchange_calls' = IF cleanup_ok
                         THEN cleanup_orphan_orders(reported, all_orders, failing)
                         ELSE {}
    /\ UNCHANGED <<trades, current_capital, daily_pnl, daily_trades, day_elapsed, dry_run,
                   db_trades>>

\* what execute_signal does to the ledger, what it returned and what it asked of the
\* exchange.  exchange_ok = FALSE is an exception of the ticker or market data request;
\* sl_ok/tp_ok tell whether the stop and target orders were placed and answered with an
\* order id.
execute_signal(L, symbol, signal, strategy_name, current_price, volatility, exchange_ok, sl_ok, tp_ok) ==
    LET can == can_open_position(L, symbol)
        size == calculate_position_size(can.ledger, signal.entry_price, signal.stop_loss,
                                        signal.leverage, volatility)
        opened == open_position(can.ledger, symbol, signal.action, current_price, size.quantity,
                                signal.leverage, signal.stop_loss, signal.take_profit,
                                strategy_name)
        position == Get(opened.ledger.positions, symbol)
        with_orders ==
            [position EXCEPT
                !.sl_order_id = IF live(dry_run) /\ sl_ok THEN "SL1" ELSE None,
                !.tp_order_id = IF signal.take_profit # NoFloat /\ live(dry_run) /\ tp_ok
                                THEN "TP1" ELSE None]
        entry_calls ==
            IF live(dry_run)
            THEN {ExchangeCall("change_leverage", symbol, "leverage"),
                  ExchangeCall("create_order", symbol, "MARKET")}
            ELSE {}
        exit_calls ==
            IF live(dry_run)
            THEN {ExchangeCall("create_order", symbol, "STOP_MARKET")}
                    \cup IF signal.take_profit # NoFloat
                         THEN {ExchangeCall("create_order", symbol, "TAKE_PROFIT_MARKET")}
                         ELSE {}
            ELSE {}
    IN  IF ~can.result
        THEN [ledger |-> can.ledger, result |-> can.log, calls |-> {}]
        ELSE IF ~exchange_ok \/ size.raises
        THEN [ledger |-> can.ledger, result |-> "error", calls |-> {}]
        ELSE IF opened.result # "opened"
        THEN [ledger |-> opened.ledger, result |-> opened.result, calls |-> entry_calls]
        ELSE [ledger |-> [opened.ledger EXCEPT
                             !.positions = DictSet(opened.ledger.positions, symbol, with_orders)],
              result |-> "opened", calls |-> entry_calls \cup exit_calls]

CallExecuteSignal(symbol, signal, strategy_name, current_price, volatility, exchange_ok, sl_ok, tp_ok) ==
    /\ phase = "running"
    /\ LET r == execute_signal(Ledger, symbol, signal, strategy_name, current_price,
                               volatility, exchange_ok, sl_ok, tp_ok)
       IN  /\ SetLedger(r.ledger)
           /\ lastCall' = Call("execute_signal", r.result)
           /\ exchange_calls' = r.calls
    /\ UNCHANGED <<dry_run, phase, db_trades>>

\* execute_signal while the day's trade counter is small enough to enumerate
ExecuteSignal(symbol, signal, strategy_name, current_price, volatility, exchange_ok, sl_ok, tp_ok) ==
    /\ execute_signal(Ledger, symbol, signal, strategy_name, current_price,
                      volatility, exchange_ok, sl_ok, tp_ok).ledger.daily_trades <= MaxDailyTrades
    /\ CallExecuteSignal(symbol, signal, strategy_name, current_price, volatility, exchange_ok,
                         sl_ok, tp_ok)

\* analyze_markets skips the symbols that are in position and executes a strategy's signal.
\* signal is what the strategy's analyze built: analyze returns it only if validate_signal
\* accepts it, and None otherwise, and analyze_markets executes nothing for None
AnalyzeMarkets(symbol, signal, strategy_name, current_price, volatility, exchange_ok) ==
    /\ ~HasKey(positions, symbol)
    /\ IF validate_signal(signal)
       THEN ExecuteSignal(symbol, signal, strategy_name, current_price, volatility,
                          exchange_ok, TRUE, TRUE)
       ELSE /\ phase = "running"
            /\ lastCall' = Call("analyze_markets", "no signal")
            /\ exchange_calls' = {}
            /\ UNCHANGED <<positions, trades, current_capital, daily_pnl, daily_trades,
                           day_elapsed, dry_run, phase, db_trades>>

\* POST /manual-trade
ManualTrade(symbol, signal, current_price, volatility, exchange_ok) ==
    ExecuteSignal(symbol, signal, "manual", current_price, volatility, exchange_ok, TRUE, TRUE)

RECURSIVE SumRealizedPnl(_)
SumRealizedPnl(fills) ==
    IF fills = <<>> THEN Zero
    ELSE RatAdd(Head(fills).realizedPnl, SumRealizedPnl(Tail(fills)))

\* a clean-up round that books a close at the entry price when there is no trade data
close_or_drop_at_entry(L, symbol, response, save_ok) ==
    LET position == Get(L.positions, symbol)
        exit_price == IF response.error \/ response.fills = <<>>
                      THEN position.entry_price ELSE response.fills[1].price
        realized_pnl == IF response.error \/ response.fills = <<>>
                        THEN NoFloat ELSE Some(SumRealizedPnl(response.fills))
        closed == close_position(L, symbol, exit_price, position.strategy, realized_pnl,
                                 save_ok)
    IN  IF closed.result = "raise"
        THEN [L EXCEPT !.positions = DictDel(L.positions, symbol)]
        ELSE closed.ledger

\* one round of the clean-up loop of check_positions for a symbol the exchange no longer holds
close_or_drop(L, symbol, response, save_ok) ==
    LET position == Get(L.positions, symbol)
        closed == close_position(L, symbol, response.fills[1].price, position.strategy,
                                 Some(SumRealizedPnl(response.fills)), save_ok)
    IN  IF response.error \/ response.fills = <<>>
        THEN [L EXCEPT !.positions = DictDel(L.positions, symbol)]
        ELSE IF closed.result = "raise"
        THEN [L EXCEPT !.positions = DictDel(L.positions, symbol)]
        ELSE closed.ledger

\* saved_symbols: the symbols whose trade the database accepts in this call
RECURSIVE cleanup_closed(_, _, _, _)
cleanup_closed(L, closed_positions, responses, saved_symbols) ==
    IF closed_positions = <<>> THEN L
    ELSE cleanup_closed(close_or_drop(L, Head(closed_positions), responses[Head(closed_positions)],
                                      Head(closed_positions) \in saved_symbols),
                        Tail(closed_positions), responses, saved_symbols)

RECURSIVE update_active(_, _, _)
update_active(L, active, mark) ==
    IF active = {} THEN L
    ELSE LET symbol == CHOOSE x \in active : TRUE
         IN  update_active(update_position(L, symbol, mark[symbol]), active \ {symbol}, mark)

\* check_positions given the exchange snapshot (the symbols with a nonzero position and
\* their mark prices) and the answers to the fills requests
check_positions(L, active_on_aster, mark, responses, saved_symbols) ==
    LET tracked == [i \in 1..Len(L.positions) |-> L.positions[i].symbol]
        closed_positions == SelectSeq(tracked, LAMBDA sym : sym \notin active_on_aster)
    IN  update_active(cleanup_closed(L, closed_positions, responses, saved_symbols),
                      active_on_aster, mark)

\* the rows that a call which took the ledger from L to after inserted into the trades table
inserted_trades(L, after, saved_symbols) ==
    Cardinality({i \in (Len(L.trades) + 1)..Len(after.trades) :
                    after.trades[i].symbol \in saved_symbols})

\* the cancel requests of the first loop of check_positions: the stop and target order ids
\* recorded on the tracked positions that the exchange no longer holds
cancel_recorded_orders(L, active_on_aster) ==
    IF live(dry_run)
    THEN UNION {
            (IF L.positions[i].sl_order_id # None
             THEN {ExchangeCall("cancel_order", L.positions[i].symbol, L.positions[i].sl_order_id)}
             ELSE {})
            \cup
            (IF L.positions[i].tp_order_id # None
             THEN {ExchangeCall("cancel_order", L.positions[i].symbol, L.positions[i].tp_order_id)}
             ELSE {}) :
            i \in {j \in 1..Len(L.positions) : L.positions[j].symbol \notin active_on_aster}}
    ELSE {}

CallCheckPositions(request_ok, active_on_aster, mark, responses, saved_symbols) ==
    /\ phase = "running"
    /\ LET L == IF request_ok
                THEN check_positions(Ledger, active_on_aster, mark, responses, saved_symbols)
                ELSE Ledger
       IN  /\ SetLedger(L)
           /\ lastCall' = Call("check_positions",
                               IF ~request_ok THEN "error"
                               ELSE IF Len(L.trades) > Len(trades) THEN "closed"
                               ELSE IF Len(L.positions) < Len(positions) THEN "removed"
                               ELSE "ok")
           /\ exchange_calls' = IF request_ok
                                THEN cancel_recorded_orders(Ledger, active_on_aster)
                                ELSE {}
           /\ db_trades' = db_trades + inserted_trades(Ledger, L, saved_symbols)
    /\ UNCHANGED <<dry_run, phase>>

\* check_positions while the trade history is short enough to enumerate
CheckPositions(request_ok, active_on_aster, mark, responses, saved_symbols) ==
    /\ request_ok =>
        Len(check_positions(Ledger, active_on_aster, mark, responses, saved_symbols).trades)
            <= MaxTrades
    /\ CallCheckPositions(request_ok, active_on_aster, mark, responses, saved_symbols)

\* DELETE /positions/{symbol}: places a reduce-only market order, whatever dry_run is, and
\* closes at the ticker price with the locally computed PnL; the database takes the trade
ManualClose(symbol, current_price) ==
    /\ phase = "running"
    /\ HasKey(positions, symbol)
    /\ Len(trades) < MaxTrades
    /\ LET r == close_position(Ledger, symbol, current_price, "manual_close", NoFloat, TRUE)
       IN  /\ SetLedger(r.ledger)
           /\ lastCall' = Call("close_position", r.result)
           /\ exchange_calls' = {ExchangeCall("create_order", symbol, "MARKET")}
           /\ db_trades' = IF r.saved THEN db_trades + 1 ELSE db_trades
    /\ UNCHANGED <<dry_run, phase>>

\* run_iteration starts with reset_daily_stats
ResetDailyStats ==
    /\ phase = "running"
    /\ SetLedger(reset_daily_stats(Ledger))
    /\ UNCHANGED <<dry_run, phase, lastCall, exchange_calls, db_trades>>

\* more than a day has passed since last_reset
DayPasses ==
    /\ ~day_elapsed
    /\ day_elapsed' = TRUE
    /\ UNCHANGED <<positions, trades, current_capital, daily_pnl, daily_trades,
                   dry_run, phase, lastCall, exchange_calls, db_trades>>

(***************************************************************************)
(* MarketRegimeDetector.get_recommended_strategies (core/market_regime.py) *)
(* and StrategySelector (core/strategy_selector.py).                       *)
(***************************************************************************)
get_recommended_strategies(regime) ==
    CASE regime = "high_vol_trending" ->
            <<"Breakout Scalping", "Momentum Reversal", "Support/Resistance Bounce",
              "Order Flow Imbalance">>
      [] regime = "low_vol_ranging" ->
            <<"Market Making", "VWAP Reversion", "Order Flow Imbalance",
              "Support/Resistance Bounce">>
      [] regime = "momentum_exhaustion" ->
            <<"Momentum Reversal", "VWAP Reversion", "Support/Resistance Bounce",
              "Order Flow Imbalance">>
      [] regime = "unknown" ->
            <<"Order Flow Imbalance", "VWAP Reversion", "Support/Resistance Bounce">>
      [] OTHER ->
            <<"Order Flow Imbalance", "VWAP Reversion", "Breakout Scalping", "Market Making",
              "Momentum Reversal", "Support/Resistance Bounce">>

\* the stats entry __init__ creates for every registered strategy
NewStats ==
    [wins |-> 0, losses |-> 0, total_pnl |-> Zero, recent_trades |-> <<>>,
     win_rate |-> Zero, avg_pnl |-> Zero, enabled |-> TRUE]

\* list[-n:]
LastN(list, n) ==
    IF Len(list) <= n THEN list ELSE SubSeq(list, Len(list) - n + 1, Len(list))

\* the auto-disable block without its minimum of 10 trades
auto_enabled_without_minimum(total_trades, win_rate, enabled) ==
    IF RatLt(win_rate, Rat(35, 100)) THEN FALSE
    ELSE IF RatLt(Rat(45, 100), win_rate) /\ ~enabled THEN TRUE
    ELSE enabled

\* the enabled flag after the auto-disable block, given the recomputed win rate
auto_enabled(total_trades, win_rate, enabled) ==
    IF total_trades >= 10
    THEN IF RatLt(win_rate, Rat(35, 100)) THEN FALSE
         ELSE IF RatLt(Rat(45, 100), win_rate) /\ ~enabled THEN TRUE
         ELSE enabled
    ELSE enabled

\* S is strategy_stats; an unknown strategy name leaves it as it is
update_strategy_performance(S, strategy_name, pnl, win) ==
    IF strategy_name \notin DOMAIN S
    THEN S
    ELSE LET stats == S[strategy_name]
             wins == IF win THEN stats.wins + 1 ELSE stats.wins
             losses == IF win THEN stats.losses ELSE stats.losses + 1
             total_pnl == RatAdd(stats.total_pnl, pnl)
             recent_trades == LastN(Append(stats.recent_trades, [pnl |-> pnl, win |-> win]), 20)
             total_trades == wins + losses
             win_rate == Rat(wins, total_trades)
             avg_pnl == RatDiv(total_pnl, FromInt(total_trades))
         IN  [S EXCEPT ![strategy_name] =
                [wins |-> wins, losses |-> losses, total_pnl |-> total_pnl,
                 recent_trades |-> recent_trades, win_rate |-> win_rate, avg_pnl |-> avg_pnl,
                 enabled |-> auto_enabled(total_trades, win_rate, stats.enabled)]]

RECURSIVE SumPnl(_)
SumPnl(list) == IF list = <<>> THEN Zero ELSE RatAdd(Head(list).pnl, SumPnl(Tail(list)))

\* np.clip(x, 0, 1)
Clip01(x) == IF RatLt(x, Zero) THEN Zero ELSE IF RatLt(One, x) THEN One ELSE x

\* the performance score of a strategy with history, from its last 10 trades
performance_score(recent_trades) ==
    LET recent_wins == Cardinality({i \in 1..Len(recent_trades) : recent_trades[i].win})
        recent_wr == Rat(recent_wins, Len(recent_trades))
        recent_pnl == RatDiv(SumPnl(recent_trades), FromInt(Len(recent_trades)))
    IN  RatAdd(RatMul(recent_wr, Rat(6, 10)),
               RatMin(RatDiv(recent_pnl, FromInt(100)), Rat(4, 10)))

\* the regime match score of a strategy, before the adjustment by the regime confidence
regime_match(recommended, strategy_name) ==
    IF \E i \in 1..Len(recommended) : recommended[i] = strategy_name
    THEN LET index == CHOOSE i \in 1..Len(recommended) : recommended[i] = strategy_name
         IN  RatSub(One, RatMul(FromInt(index - 1), Rat(2, 10)))
    ELSE Rat(2, 10)

calculate_strategy_score(S, strategy_name, regime, regime_confidence) ==
    LET regime_score ==
            RatMul(regime_match(get_recommended_strategies(regime), strategy_name),
                   regime_confidence)
        stats == S[strategy_name]
        total_trades == stats.wins + stats.losses
        final_score ==
            RatAdd(RatMul(regime_score, Rat(7, 10)),
                   RatMul(IF total_trades = 0
                          THEN Rat(1, 2)
                          ELSE performance_score(LastN(stats.recent_trades, 10)),
                          Rat(3, 10)))
    IN  IF ~stats.enabled THEN Zero ELSE Clip01(final_score)

NoSelection == <<>>

\* a max() that also takes a later item whose key equals the highest so far
replaces_max_on_tie(key, max_key) == RatLe(max_key, key)

\* max() walks the items in dict order and takes an item only when its key is greater than
\* the highest so far
replaces_max(key, max_key) == RatLt(max_key, key)

RECURSIVE max_item(_, _, _)
\* the index max() holds after item i and the items behind it, best being the index it held
\* before
max_item(strategy_scores, i, best) ==
    IF i > Len(strategy_scores)
    THEN best
    ELSE max_item(strategy_scores, i + 1,
                  IF replaces_max(strategy_scores[i], strategy_scores[best]) THEN i ELSE best)

\* max(strategy_scores.items(), key=lambda x: x[1]) over the dict in registration order
best_strategy(names, strategy_scores) ==
    LET best == max_item(strategy_scores, 2, 1)
    IN  <<names[best], strategy_scores[best]>>

\* regime and regime_confidence are what regime_detector.update_regime returned
select_strategy(names, S, regime, regime_confidence) ==
    IF names = <<>>
    THEN NoSelection
    ELSE best_strategy(names, [i \in 1..Len(names) |->
                calculate_strategy_score(S, names[i], regime, regime_confidence)])

\* sorted(strategy_scores.items(), key=score, reverse=True): a stable sort, so strategies of
\* equal score keep their registration order; the result is the sequence of indexes
RECURSIVE sorted_strategies(_, _)
sorted_strategies(indexes, strategy_scores) ==
    IF indexes = {}
    THEN <<>>
    ELSE LET first == CHOOSE i \in indexes :
                        \A j \in indexes \ {i} :
                            \/ RatLt(strategy_scores[j], strategy_scores[i])
                            \/ strategy_scores[j] = strategy_scores[i] /\ i < j
         IN  <<first>> \o sorted_strategies(indexes \ {first}, strategy_scores)

\* a loop over the sorted strategies that skips none of them
score_too_low_never(confidence) == FALSE

\* if confidence < 0.2: continue
score_too_low(confidence) == RatLt(confidence, Rat(2, 10))

NoSignal == <<>>

\* what strategy.analyze does for one strategy in one call: a validated signal, None, or an
\* exception
AnalyzeOutcomes == {"signal", "none", "raise"}

\* the loop of analyze_with_best_strategy over sorted_strategies.  order[k] is the k-th entry
\* of the sorted list with what analyze does for it; the entry is tried when its score is not
\* too low and no entry before it returned a signal (the loop returns at the first signal and
\* goes on after None and after an exception)
tried(order, k) ==
    /\ ~score_too_low(order[k].score)
    /\ \A j \in 1..(k - 1) : score_too_low(order[j].score) \/ order[j].outcome # "signal"

\* the first half of analyze_with_best_strategy: the registered strategies sorted by score
scored_strategies(names, S, regime, regime_confidence) ==
    LET strategy_scores == [i \in 1..Len(names) |->
                                calculate_strategy_score(S, names[i], regime, regime_confidence)]
        sorted == sorted_strategies(1..Len(names), strategy_scores)
    IN  [k \in 1..Len(sorted) |->
            [name |-> names[sorted[k]],
             score |-> strategy_scores[sorted[k]],
             enabled |-> S[names[sorted[k]]].enabled]]

\* the second half: the walk over the sorted list, outcomes[name] being what the analyze of
\* that strategy does when it is called
analyze_with_best_strategy(scored, regime, outcomes) ==
    LET order == [k \in 1..Len(scored) |->
                    [name |-> scored[k].name, score |-> scored[k].score,
                     enabled |-> scored[k].enabled, outcome |-> outcomes[scored[k].name]]]
        calls == [k \in 1..Len(order) |->
                    [name |-> order[k].name, score |-> order[k].score,
                     enabled |-> order[k].enabled, outcome |-> order[k].outcome,
                     called |-> tried(order, k)]]
        returning == {k \in 1..Len(calls) : calls[k].called /\ calls[k].outcome = "signal"}
    IN  [calls |-> calls,
         result |-> IF returning = {}
                    THEN NoSignal
                    ELSE LET k == CHOOSE k \in returning : TRUE
                         IN  <<[selected_strategy |-> calls[k].name,
                                selection_confidence |-> calls[k].score,
                                market_regime |-> regime]>>]

\* no analyze_with_best_strategy call is the last call on the selector
NoAnalysis == [calls |-> <<>>, result |-> NoSignal]

\* the strategy lists the bot registers, what outcomes are recorded, what regimes are seen
StrategyLists == {<<"Breakout Scalping">>, <<"Breakout Scalping", "VWAP Reversion">>}
\* with "Funding Arbitrage" as a second strategy, the two score the same in a ranging market
\* until an outcome is recorded
AnalysisLists == StrategyLists \cup {<<"Breakout Scalping", "Funding Arbitrage">>}
OutcomeStrategies == {"Breakout Scalping", "Liquidation Cascade"}
Outcomes == {[pnl |-> FromInt(10), win |-> TRUE], [pnl |-> FromInt(-10), win |-> FALSE]}
Regimes == {"high_vol_trending", "low_vol_ranging"}
RegimeConfidences == {Rat(3, 5)}

RECURSIVE SumTrades(_, _)
\* the outcomes recorded so far for the strategies of a list
SumTrades(S, names) ==
    IF names = <<>> THEN 0
    ELSE S[Head(names)].wins + S[Head(names)].losses + SumTrades(S, Tail(names))

RECURSIVE SumWins(_, _)
\* the wins recorded so far for the strategies of a list
SumWins(S, names) ==
    IF names = <<>> THEN 0 ELSE S[Head(names)].wins + SumWins(S, Tail(names))

\* StrategySelector.__init__, called by TradingBot.__init__
NewStrategySelector(list) ==
    /\ strategies = <<>>
    /\ strategies' = list
    /\ strategy_stats' = [name \in {list[i] : i \in 1..Len(list)} |-> NewStats]
    /\ selected' = None
    /\ analysis' = NoAnalysis
    /\ UNCHANGED <<ledgerVars, regimeVars, loopVars>>

UpdateStrategyPerformance(strategy_name, pnl, win) ==
    /\ strategies # <<>>
    /\ SumTrades(strategy_stats, strategies) < MaxOutcomes
    /\ strategy_stats' = update_strategy_performance(strategy_stats, strategy_name, pnl, win)
    /\ analysis' = NoAnalysis
    /\ UNCHANGED <<strategies, selected>>
    /\ UNCHANGED <<ledgerVars, regimeVars, loopVars>>

SelectStrategy(regime, regime_confidence) ==
    /\ strategies # <<>>
    /\ LET result == select_strategy(strategies, strategy_stats, regime, regime_confidence)
       IN  selected' = IF result = NoSelection THEN None ELSE result[1]
    /\ analysis' = NoAnalysis
    /\ UNCHANGED <<strategies, strategy_stats>>
    /\ UNCHANGED <<ledgerVars, regimeVars, loopVars>>

\* analysis records the sorted list that analyze_with_best_strategy walked, which of its
\* strategies it called, and what it returned, while that call is the last one made on the
\* selector
AnalyzeWithBestStrategy(regime, regime_confidence) ==
    /\ strategies # <<>>
    /\ LET scored == scored_strategies(strategies, strategy_stats, regime, regime_confidence)
       IN  \E outcomes \in [{strategies[i] : i \in 1..Len(strategies)} -> AnalyzeOutcomes] :
                analysis' = analyze_with_best_strategy(scored, regime, outcomes)
    /\ UNCHANGED <<strategies, strategy_stats, selected>>
    /\ UNCHANGED <<ledgerVars, regimeVars, loopVars>>

InitSelector ==
    /\ strategies = <<>>
    /\ strategy_stats = <<>>
    /\ selected = None
    /\ analysis = NoAnalysis

(***************************************************************************)
(* MarketRegimeDetector (core/market_regime.py): the classification of the *)
(* extracted signals and the regime state.                                 *)
(***************************************************************************)
MarketRegimes ==
    {"high_vol_trending", "low_vol_ranging", "momentum_exhaustion", "mixed", "unknown"}

\* the hypotheses detect_regime scores, in the order of its scores dict
ScoredRegimes == <<"high_vol_trending", "low_vol_ranging", "momentum_exhaustion", "mixed">>

RegimeSignals(volatility, trend_strength, volume_trend, orderbook_imbalance, funding_rate, rsi, price_momentum, liquidity_score) ==
    [volatility |-> volatility, trend_strength |-> trend_strength,
     volume_trend |-> volume_trend, orderbook_imbalance |-> orderbook_imbalance,
     funding_rate |-> funding_rate, rsi |-> rsi, price_momentum |-> price_momentum,
     liquidity_score |-> liquidity_score]

\* x if the condition holds, else nothing: one threshold-gated contribution to a score
Gated(condition, x) == IF condition THEN x ELSE Zero

high_vol_trending_score(signals) ==
    RatAdd(RatAdd(Gated(RatLt(Rat(3, 100), signals.volatility), FromInt(3)),
                  Gated(RatLt(FromInt(40), signals.trend_strength), Rat(5, 2))),
           RatAdd(Gated(RatLt(Rat(1, 2), RatAbs(signals.price_momentum)), FromInt(2)),
                  Gated(RatLt(Rat(3, 10), signals.volume_trend), Rat(3, 2))))

low_vol_ranging_score(signals) ==
    RatAdd(RatAdd(RatAdd(Gated(RatLt(signals.volatility, Rat(15, 1000)), FromInt(3)),
                         Gated(RatLt(signals.trend_strength, FromInt(25)), Rat(5, 2))),
                  RatAdd(Gated(RatLt(RatAbs(signals.price_momentum), Rat(2, 10)), FromInt(2)),
                         Gated(RatLt(Rat(1, 1000), RatAbs(signals.funding_rate)), Rat(3, 2)))),
           Gated(RatLt(Rat(7, 10), signals.liquidity_score), One))

momentum_exhaustion_score(signals) ==
    RatAdd(RatAdd(Gated(RatLt(signals.rsi, FromInt(25)) \/ RatLt(FromInt(75), signals.rsi),
                        FromInt(3)),
                  Gated(RatLt(Rat(4, 10), RatAbs(signals.price_momentum))
                            /\ RatLt(signals.volume_trend, Rat(-2, 10)), Rat(5, 2))),
           RatAdd(Gated(RatLt(Rat(2, 1000), RatAbs(signals.funding_rate)), FromInt(2)),
                  Gated(RatLt(Rat(6, 10), RatAbs(signals.orderbook_imbalance)), Rat(3, 2))))

\* the scores dict of detect_regime, in the order of ScoredRegimes
regime_scores(signals) ==
    <<high_vol_trending_score(signals), low_vol_ranging_score(signals),
      momentum_exhaustion_score(signals), Rat(1, 2)>>

\* the boost of a persisting regime, uncapped
boosted_confidence_uncapped(confidence) == RatMul(confidence, Rat(11, 10))

\* min(1.0, confidence * 1.1)
boosted_confidence(confidence) == RatMin(One, RatMul(confidence, Rat(11, 10)))

\* the winner of the scores and its confidence, given the held regime and the persistence
classify_scores(scores, held_regime, regime_persistence) ==
    LET best == CHOOSE i \in 1..4 :
                    /\ \A j \in 1..4 : RatLe(scores[j], scores[i])
                    /\ \A j \in 1..(i - 1) : RatLt(scores[j], scores[i])
        total_score == RatAdd(RatAdd(scores[1], scores[2]), RatAdd(scores[3], scores[4]))
        confidence == IF RatLt(Zero, total_score) THEN RatDiv(scores[best], total_score)
                                                  ELSE Rat(1, 2)
    IN  [regime |-> ScoredRegimes[best],
         confidence |-> IF ScoredRegimes[best] = held_regime
                            /\ RatLt(Rat(6, 10), regime_persistence)
                        THEN boosted_confidence(confidence)
                        ELSE confidence]

detect_regime(signals, held_regime, regime_persistence) ==
    classify_scores(regime_scores(signals), held_regime, regime_persistence)

\* extract_signals: the share of 20 that the held regime has in the last 20 of the history
regime_persistence_of(history, held_regime) ==
    IF history = <<>> THEN Zero
    ELSE Rat(Cardinality({i \in 1..Len(LastN(history, 20)) :
                            LastN(history, 20)[i].regime = held_regime}), 20)

\* signals that gate no hypothesis, a strong trend, a quiet range, an exhausted move
QuietSignals ==
    RegimeSignals(Rat(2, 100), FromInt(30), Zero, Zero, Zero, FromInt(50), Rat(3, 10), Rat(1, 2))
TrendingSignals ==
    RegimeSignals(Rat(4, 100), FromInt(50), Rat(1, 2), Zero, Zero, FromInt(50), Rat(6, 10), Rat(1, 2))
RangingSignals ==
    RegimeSignals(Rat(1, 100), FromInt(20), Zero, Zero, Rat(15, 10000), FromInt(50), Rat(1, 10), Rat(8, 10))
ExhaustedSignals ==
    RegimeSignals(Rat(2, 100), FromInt(30), Rat(-3, 10), Rat(-7, 10), Rat(-3, 1000), FromInt(80), Rat(-45, 100), Rat(1, 2))
\* what extract_signals may hand to detect_regime
SignalProfiles == {QuietSignals, TrendingSignals, RangingSignals, ExhaustedSignals}
\* the profiles of the updates that carry a timestamp
RecordedProfiles == {QuietSignals, TrendingSignals}

\* a trim that keeps the oldest entries and drops the new one
keep_recent_drops_newest(history) ==
    IF Len(history) > 1000 THEN SubSeq(history, 1, 1000) ELSE history

\* if len(self.regime_history) > 1000: self.regime_history = self.regime_history[-1000:]
keep_recent(history) ==
    IF Len(history) > 1000 THEN LastN(history, 1000) ELSE history

\* if timestamp: self.regime_history.append((timestamp, new_regime, confidence)), then the trim
recorded_history(history, detected, has_timestamp) ==
    IF has_timestamp THEN keep_recent(Append(history, detected)) ELSE history

\* update_regime: has_timestamp tells whether a truthy timestamp came with the call
update_regime(signals, has_timestamp) ==
    /\ LET detected == detect_regime(signals, current_regime,
                                     regime_persistence_of(regime_history, current_regime))
       IN  /\ current_regime' = detected.regime
           /\ current_confidence' = detected.confidence
           /\ regime_history' = recorded_history(regime_history, detected, has_timestamp)
    /\ UNCHANGED <<ledgerVars, selectorVars, loopVars>>

\* update_regime while the history is short enough to enumerate
UpdateRegime(signals, has_timestamp) ==
    /\ has_timestamp => Len(regime_history) < MaxHistory
    /\ update_regime(signals, has_timestamp)

InitRegime ==
    /\ current_regime = "unknown"
    /\ current_confidence = Zero
    /\ regime_history = <<>>

(***************************************************************************)
(* The control loop (TradingBot.start, run_iteration, analyze_markets) and *)
(* the API process that may host it (api/main.py).  What an iteration does *)
(* to the ledger is modelled by the ledger actions; here an iteration is   *)
(* its control flow: every call in it either returns or raises.            *)
(***************************************************************************)
\* TradingBot.symbols, in the order analyze_markets visits them
LoopSymbols == <<"BTCUSDT", "ETHUSDT">>

NotVisited == [s \in {LoopSymbols[i] : i \in 1..Len(LoopSymbols)} |-> "none"]

\* a start whose except branch leaves the loop
after_iteration_error_returns == "returned"

\* start catches an Exception of run_iteration, logs it and goes on to time.sleep
after_iteration_error == "sleep"

\* the event loop of the API process runs one coroutine at a time; run_bot_async calls
\* bot_instance.start without awaiting anything, so from its first step until start returns
\* the event loop runs nothing else
EventLoopFree == entry_point = "api" /\ loop_pc \in {"not_started", "scheduled", "returned"}

\* src/main.py run_live: bot.start(interval_seconds) in the main thread
StartMain ==
    /\ entry_point = "none"
    /\ entry_point' = "main"
    /\ is_running' = TRUE
    /\ loop_pc' = "while"
    /\ UNCHANGED <<remaining, analysis_log, iteration_error, request>>

\* src/run_api.py and api/main.py: uvicorn.run(app, ...)
RunApi ==
    /\ entry_point = "none"
    /\ entry_point' = "api"
    /\ UNCHANGED <<is_running, loop_pc, remaining, analysis_log, iteration_error, request>>

\* POST /bot/start: asyncio.create_task(run_bot_async(...)), then the handler returns
StartBot ==
    /\ EventLoopFree
    /\ loop_pc = "not_started"
    /\ loop_pc' = "scheduled"
    /\ UNCHANGED <<entry_point, is_running, remaining, analysis_log, iteration_error, request>>

\* the event loop runs the task: run_bot_async calls bot_instance.start
RunBotAsync ==
    /\ loop_pc = "scheduled"
    /\ is_running' = TRUE
    /\ loop_pc' = "while"
    /\ UNCHANGED <<entry_point, remaining, analysis_log, iteration_error, request>>

\* while self.is_running
WhileRunning ==
    /\ loop_pc = "while"
    /\ IF is_running
       THEN /\ loop_pc' = "run_iteration"
            /\ remaining' = LoopSymbols
            /\ analysis_log' = NotVisited
       ELSE /\ loop_pc' = "returned"
            /\ UNCHANGED <<remaining, analysis_log>>
    /\ UNCHANGED <<entry_point, is_running, iteration_error, request>>

\* run_iteration up to analyze_markets: reset_daily_stats and check_positions
ResetAndCheck(raises) ==
    /\ loop_pc = "run_iteration"
    /\ loop_pc' = IF raises THEN after_iteration_error ELSE "update_regime"
    /\ iteration_error' = (raises \/ iteration_error)
    /\ UNCHANGED <<entry_point, is_running, remaining, analysis_log, request>>

\* the regime block of analyze_markets, inside its own try/except
UpdateRegimeBlock(raises) ==
    /\ loop_pc = "update_regime"
    /\ loop_pc' = "symbols"
    /\ UNCHANGED <<entry_point, is_running, remaining, analysis_log, iteration_error, request>>

\* one round of the for loop of analyze_markets, inside its own try/except: the symbol is
\* skipped (in position, or no market data), analysed, or its analysis or execution raises
AnalyzeSymbol(outcome) ==
    /\ loop_pc = "symbols"
    /\ remaining # <<>>
    /\ analysis_log' = [analysis_log EXCEPT ![Head(remaining)] = outcome]
    /\ remaining' = Tail(remaining)
    /\ UNCHANGED <<entry_point, is_running, loop_pc, iteration_error, request>>

\* the end of run_iteration: get_statistics and the status line
LogStatus(raises) ==
    /\ loop_pc = "symbols"
    /\ remaining = <<>>
    /\ loop_pc' = IF raises THEN after_iteration_error ELSE "sleep"
    /\ iteration_error' = raises
    /\ UNCHANGED <<entry_point, is_running, remaining, analysis_log, request>>

\* time.sleep(interval_seconds) returns
Sleep ==
    /\ loop_pc = "sleep"
    /\ loop_pc' = "while"
    /\ UNCHANGED <<entry_point, is_running, remaining, analysis_log, iteration_error, request>>

\* Ctrl-C in the process started from src/main.py: except KeyboardInterrupt calls stop
KeyboardInterrupt ==
    /\ entry_point = "main"
    /\ loop_pc \in {"while", "run_iteration", "update_regime", "symbols", "sleep"}
    /\ is_running' = FALSE
    /\ loop_pc' = "returned"
    /\ UNCHANGED <<entry_point, remaining, analysis_log, iteration_error, request>>

\* a client sends GET /positions to the API process
RequestArrives ==
    /\ entry_point = "api"
    /\ request = "none"
    /\ request' = "pending"
    /\ UNCHANGED <<entry_point, is_running, loop_pc, remaining, analysis_log, iteration_error>>

\* the event loop runs get_positions, an async def handler
GetPositions ==
    /\ EventLoopFree
    /\ request = "pending"
    /\ request' = "served"
    /\ UNCHANGED <<entry_point, is_running, loop_pc, remaining, analysis_log, iteration_error>>

\* the client has its answer and may ask again
ResponseRead ==
    /\ request = "served"
    /\ request' = "none"
    /\ UNCHANGED <<entry_point, is_running, loop_pc, remaining, analysis_log, iteration_error>>

\* the steps of the thread that runs start
LoopStep ==
    \/ WhileRunning
    \/ \E raises \in BOOLEAN : ResetAndCheck(raises)
    \/ \E raises \in BOOLEAN : UpdateRegimeBlock(raises)
    \/ \E outcome \in {"skipped", "analysed", "error"} : AnalyzeSymbol(outcome)
    \/ \E raises \in BOOLEAN : LogStatus(raises)
    \/ Sleep

InitLoop ==
    /\ entry_point = "none"
    /\ is_running = FALSE
    /\ loop_pc = "not_started"
    /\ remaining = <<>>
    /\ analysis_log = NotVisited
    /\ iteration_error = FALSE
    /\ request = "none"

(***************************************************************************)
(* The ledger specification.                                               *)
(***************************************************************************)
\* RiskManager.__init__, before TradingBot.__init__ syncs with the exchange
\* RiskManager.__init__ and the start of TradingBot.__init__
NewLedger ==
    /\ positions = <<>>
    /\ trades = <<>>
    /\ current_capital = FromInt(InitialCapital)
    /\ daily_pnl = Zero
    /\ daily_trades = 0
    /\ day_elapsed = FALSE
    /\ phase = "constructing"
    /\ lastCall = Call("__init__", "ok")
    /\ exchange_calls = {}
    /\ db_trades = 0
    /\ user_trades = <<>>

InitLedger ==
    /\ NewLedger
    /\ dry_run = TRUE

\* the steps of the ledger when the exchange answers with reports at startup; each handler
\* may also find its first exchange request failing; the database takes every trade
NextLedger(reports, built, requested) ==
    \/ \E reported \in reports, cleanup_ok \in BOOLEAN, all_orders \in OpenOrders,
          failing \in FailingCancels :
            SyncPositionsFromExchange(TRUE, reported, cleanup_ok, all_orders, failing)
    \/ SyncPositionsFromExchange(FALSE, <<>>, FALSE, <<>>, {})
    \/ \E source \in built, current_price \in TickerPrices,
          volatility \in Volatilities, exchange_ok \in BOOLEAN :
            AnalyzeMarkets(source[1], source[2], source[3], current_price, volatility,
                           exchange_ok)
    \/ \E source \in requested, current_price \in TickerPrices,
          volatility \in Volatilities, exchange_ok \in BOOLEAN :
            ManualTrade(source[1], source[2], current_price, volatility, exchange_ok)
    \/ \E active_on_aster \in SUBSET Symbols :
       \E mark \in [active_on_aster -> MarkPrices],
          responses \in [Keys(positions) \ active_on_aster -> FillResponses] :
            CheckPositions(TRUE, active_on_aster, mark, responses, Symbols)
    \/ CheckPositions(FALSE, {}, <<>>, <<>>, {})
    \/ \E symbol \in Symbols, current_price \in ExitPrices : ManualClose(symbol, current_price)
    \/ ResetDailyStats
    \/ DayPasses

Init == InitLedger /\ InitSelector /\ InitRegime /\ InitLoop
vars == <<ledgerVars, selectorVars, regimeVars, loopVars>>

\* the bot started on an account without open positions
Next == NextLedger(FlatReports, StrategySignals, ManualSignals) /\ UNCHANGED <<selectorVars, regimeVars, loopVars, user_trades>>
Spec == Init /\ [][Next]_vars

\* the bot started on an account that may hold positions
NextRecovery ==
    NextLedger(ExchangeReports, StrategySignals, ManualSignals)
        /\ UNCHANGED <<selectorVars, regimeVars, loopVars, user_trades>>
SpecRecovery == Init /\ [][NextRecovery]_vars

(***************************************************************************)
(* The bot with signals as the strategies build them and manual trades as  *)
(* the API's callers request them.                                         *)
(***************************************************************************)
NextSignals ==
    NextLedger(FlatReports, BuiltSignals, RequestedSignals)
        /\ UNCHANGED <<selectorVars, regimeVars, loopVars, user_trades>>
SpecSignals == Init /\ [][NextSignals]_vars

(***************************************************************************)
(* The bot on an account that may hold a SHORT with its resting stop and   *)
(* target orders: started live (SpecOrders) or with --dry-run (SpecDryRun).*)
(***************************************************************************)
OrderReports == {<<>>, <<ShortETH>>}
InitOrders == NewLedger /\ dry_run = FALSE /\ InitSelector /\ InitRegime /\ InitLoop
NextOrders ==
    NextLedger(OrderReports, StrategySignals, ManualSignals)
        /\ UNCHANGED <<selectorVars, regimeVars, loopVars, user_trades>>
SpecOrders == InitOrders /\ [][NextOrders]_vars
SpecDryRun == Init /\ [][NextOrders]_vars

(***************************************************************************)
(* The bot started on an account that may hold more positions than         *)
(* max_open_positions allows the bot to open.                              *)
(***************************************************************************)
CapacityReports == {<<>>, <<ShortETH>>, <<LongBTC, ShortETH, ShortSOL>>}
NextCapacity ==
    NextLedger(CapacityReports, StrategySignals, ManualSignals)
        /\ UNCHANGED <<selectorVars, regimeVars, loopVars, user_trades>>
SpecCapacity == Init /\ [][NextCapacity]_vars

(***************************************************************************)
(* A live bot trading ETHUSDT over successive round trips: it enters with  *)
(* a MARKET order, the exchange fills the resting stop or target order,    *)
(* and check_positions finds the position gone and asks for the fills.     *)
(***************************************************************************)
\* a fill of the exchange; trip numbers the round trip it belongs to, closing tells an exit
Fill(trip, closing, price, realizedPnl) ==
    [trip |-> trip, closing |-> closing, price |-> FromInt(price),
     realizedPnl |-> FromInt(realizedPnl)]

\* the entry realizes nothing; the stop at 208 loses 8, the target at 170 gains 30
EntryFill(trip) == Fill(trip, FALSE, 200, 0)
ExitFills(trip) == {Fill(trip, TRUE, 208, -8), Fill(trip, TRUE, 170, 30)}

RoundTripSignal == Signal("SHORT", FromInt(208), Some(FromInt(170)), 20)

Trips == Cardinality({i \in 1..Len(user_trades) : ~user_trades[i].closing})
open_on_exchange == user_trades # <<>> /\ ~user_trades[Len(user_trades)].closing

\* GET /fapi/v3/userTrades with symbol and limit=10: the last ten fills of the symbol, the
\* most recent first as check_positions reads them
recent_user_trades ==
    LET n == IF Len(user_trades) < 10 THEN Len(user_trades) ELSE 10
    IN  [i \in 1..n |-> user_trades[Len(user_trades) + 1 - i]]

EnterRoundTrip(exchange_ok) ==
    /\ Trips < MaxRoundTrips
    /\ CallExecuteSignal("ETHUSDT", RoundTripSignal, "Breakout Scalping", FromInt(200),
                         Rat(1, 10), exchange_ok, TRUE, TRUE)
    /\ user_trades' =
            IF ExchangeCall("create_order", "ETHUSDT", "MARKET")
                    \in execute_signal(Ledger, "ETHUSDT", RoundTripSignal, "Breakout Scalping",
                                       FromInt(200), Rat(1, 10), exchange_ok, TRUE, TRUE).calls
            THEN Append(user_trades, EntryFill(Trips + 1))
            ELSE user_trades

\* the exchange fills the resting stop or target order of the open position
ExchangeFillsExit(fill) ==
    /\ open_on_exchange
    /\ user_trades' = Append(user_trades, fill)
    /\ UNCHANGED <<positions, trades, current_capital, daily_pnl, daily_trades, day_elapsed,
                   dry_run, phase, lastCall, exchange_calls, db_trades>>

Reconcile(request_ok, saved_symbols) ==
    /\ LET active_on_aster == IF open_on_exchange THEN {"ETHUSDT"} ELSE {}
       IN  CallCheckPositions(request_ok, active_on_aster,
                              [symbol \in active_on_aster |-> FromInt(210)],
                              [symbol \in Keys(positions) \ active_on_aster |->
                                    [error |-> FALSE, fills |-> recent_user_trades]],
                              saved_symbols)
    /\ UNCHANGED user_trades

\* TradingBot.__init__ has built the selector over its strategies before it syncs
SelectorBuilt(list) ==
    /\ strategies = list
    /\ strategy_stats = [name \in {list[i] : i \in 1..Len(list)} |-> NewStats]
    /\ selected = None
    /\ analysis = NoAnalysis

InitRoundTrips ==
    /\ NewLedger
    /\ dry_run = FALSE
    /\ SelectorBuilt(<<"Breakout Scalping", "VWAP Reversion">>)
    /\ InitRegime
    /\ InitLoop
NextRoundTrips ==
    /\ \/ SyncPositionsFromExchange(TRUE, <<>>, TRUE, <<>>, {}) /\ UNCHANGED user_trades
       \/ \E exchange_ok \in BOOLEAN : EnterRoundTrip(exchange_ok)
       \/ \E fill \in ExitFills(Trips) : ExchangeFillsExit(fill)
       \/ \E request_ok \in BOOLEAN, saved_symbols \in DatabaseAnswers :
                Reconcile(request_ok, saved_symbols)
       \/ ResetDailyStats /\ UNCHANGED user_trades
       \/ DayPasses /\ UNCHANGED user_trades
    /\ UNCHANGED <<selectorVars, regimeVars, loopVars>>
SpecRoundTrips == InitRoundTrips /\ [][NextRoundTrips]_vars

(***************************************************************************)
(* The selector specification.                                             *)
(***************************************************************************)
NextSelector ==
    \/ \E list \in StrategyLists : NewStrategySelector(list)
    \/ \E strategy_name \in OutcomeStrategies, outcome \in Outcomes :
            UpdateStrategyPerformance(strategy_name, outcome.pnl, outcome.win)
    \/ \E regime \in Regimes, regime_confidence \in RegimeConfidences :
            SelectStrategy(regime, regime_confidence)
SpecSelector == Init /\ [][NextSelector]_vars

(***************************************************************************)
(* The selector with its fallback chain: outcomes are recorded and the     *)
(* strategies are tried in the order of their scores.                      *)
(***************************************************************************)
NextAnalysis ==
    \/ \E list \in AnalysisLists : NewStrategySelector(list)
    \/ \E strategy_name \in OutcomeStrategies, outcome \in Outcomes :
            /\ outcome.win => SumWins(strategy_stats, strategies) < MaxAnalysisWins
            /\ UpdateStrategyPerformance(strategy_name, outcome.pnl, outcome.win)
    \/ \E regime \in Regimes, regime_confidence \in RegimeConfidences :
            SelectStrategy(regime, regime_confidence)
    \/ \E regime \in Regimes, regime_confidence \in RegimeConfidences :
            AnalyzeWithBestStrategy(regime, regime_confidence)
SpecAnalysis == Init /\ [][NextAnalysis]_vars

(***************************************************************************)
(* The control loop specification, and the same with the fairness that the *)
(* scheduling gives: the thread that runs start is not suspended forever,  *)
(* a created task is eventually run by the event loop, and a free event    *)
(* loop eventually runs the handler of a pending request.                  *)
(***************************************************************************)
NextLoop ==
    /\ \/ StartMain
       \/ RunApi
       \/ StartBot
       \/ RunBotAsync
       \/ LoopStep
       \/ KeyboardInterrupt
       \/ RequestArrives
       \/ GetPositions
       \/ ResponseRead
    /\ UNCHANGED <<ledgerVars, selectorVars, regimeVars>>
SpecLoop == Init /\ [][NextLoop]_vars
SpecLoopFair ==
    /\ SpecLoop
    /\ WF_vars(LoopStep /\ UNCHANGED <<ledgerVars, selectorVars, regimeVars>>)
    /\ WF_vars(RunBotAsync /\ UNCHANGED <<ledgerVars, selectorVars, regimeVars>>)
    /\ WF_vars(GetPositions /\ UNCHANGED <<ledgerVars, selectorVars, regimeVars>>)

(***************************************************************************)
(* The regime detector specification.                                      *)
(***************************************************************************)
NextRegime ==
    \/ \E signals \in SignalProfiles : UpdateRegime(signals, FALSE)
    \/ \E signals \in RecordedProfiles : UpdateRegime(signals, TRUE)
SpecRegime == Init /\ [][NextRegime]_vars

(***************************************************************************)
(* The detector on one steady market, long enough for the history to fill: *)
(* select_strategy passes its timestamp on, the bot's regime block passes  *)
(* timestamp=None.  The history stops changing once all 1000 entries are   *)
(* the same, so the state space is finite without a bound.                 *)
(***************************************************************************)
NextHistory ==
    \/ update_regime(TrendingSignals, TRUE)
    \/ update_regime(TrendingSignals, FALSE)
SpecHistory == Init /\ [][NextHistory]_vars

(***************************************************************************)
(* Properties of the ledger.                                               *)
(***************************************************************************)
\* every execute_signal input of the model: <<symbol, signal, strategy name>>
OpenInputs == StrategySignals \cup ManualSignals

\* the step is execute_signal called with this input
ExecuteSignalStep(source, current_price, volatility, exchange_ok) ==
    ExecuteSignal(source[1], source[2], source[3], current_price, volatility,
                  exchange_ok, TRUE, TRUE)

OnePositionPerSymbol == Cardinality(Keys(positions)) = Len(positions)

\* C1 as stated: an open on a symbol that already has a Position is rejected and leaves the
\* existing Position, the trade history, current_capital, daily_pnl and daily_trades
\* unchanged; the ledger never holds two Positions for one symbol.
C1_HeldSymbolRejectedLedgerUnchanged ==
    /\ []OnePositionPerSymbol
    /\ [][\A source \in OpenInputs, current_price \in TickerPrices,
            volatility \in Volatilities, exchange_ok \in BOOLEAN :
            (HasKey(positions, source[1])
                /\ ExecuteSignalStep(source, current_price, volatility, exchange_ok))
            => /\ lastCall'.result # "opened"
               /\ positions' = positions
               /\ trades' = trades
               /\ current_capital' = current_capital
               /\ daily_pnl' = daily_pnl
               /\ daily_trades' = daily_trades]_vars

\* C1, amended: an open on a symbol that already has a Position is rejected and leaves the
\* existing Position, the trade history and current_capital unchanged; daily_pnl and
\* daily_trades are unchanged too unless the daily reset is due, in which case the rejected
\* open zeroes them; the ledger never holds two Positions for one symbol.
C1_HeldSymbolRejected ==
    /\ []OnePositionPerSymbol
    /\ [][\A source \in OpenInputs, current_price \in TickerPrices,
            volatility \in Volatilities, exchange_ok \in BOOLEAN :
            (HasKey(positions, source[1])
                /\ ExecuteSignalStep(source, current_price, volatility, exchange_ok))
            => /\ lastCall'.result # "opened"
               /\ positions' = positions
               /\ trades' = trades
               /\ current_capital' = current_capital
               /\ daily_pnl' = (IF day_elapsed THEN Zero ELSE daily_pnl)
               /\ daily_trades' = (IF day_elapsed THEN 0 ELSE daily_trades)]_vars

\* an open on a held symbol has just been refused by the exclusivity gate
C1_Witness ==
    /\ lastCall = Call("execute_signal", "Already in position")
    /\ HasKey(positions, "BTCUSDT")
\* C2: after startup recovery, open, update, close and reconcile, every Position has its
\* stop-loss strictly on the safe side of its liquidation price (LONG: stop > liquidation;
\* SHORT: stop < liquidation).
C2_StopOnSafeSideOfLiquidation ==
    \A i \in 1..Len(positions) :
        IF positions[i].side = "LONG"
        THEN RatLt(positions[i].liquidation_price, positions[i].stop_loss)
        ELSE RatLt(positions[i].stop_loss, positions[i].liquidation_price)

\* the stop-before-liquidation outcome C3 prescribes for an open that passes can_open_position
C3_AcceptsOrRejects(source, current_price) ==
    LET symbol == source[1]
        signal == source[2]
        liquidation_price ==
            calculate_liquidation_price(current_price, signal.leverage, signal.action)
        rejects == IF signal.action = "LONG"
                   THEN RatLe(signal.stop_loss, liquidation_price)
                   ELSE RatLe(liquidation_price, signal.stop_loss)
    IN  IF rejects
        THEN /\ lastCall'.result = "Stop loss too close to liquidation"
             /\ positions' = positions
             /\ trades' = trades
             /\ current_capital' = current_capital
        ELSE /\ lastCall'.result = "opened"
             /\ HasKey(positions', symbol)
             /\ Get(positions', symbol).side = signal.action
             /\ Get(positions', symbol).stop_loss = signal.stop_loss
             /\ Get(positions', symbol).liquidation_price = liquidation_price

\* C3 as stated: given can_open_position holds for the symbol, open rejects a LONG when
\* stop <= liquidation price and accepts it when stop > liquidation price (SHORT: rejects
\* when stop >= liquidation price, accepts when stop < liquidation price); on rejection the
\* ledger, daily_pnl and daily_trades included, is unchanged.
C3_StopCheckLedgerUnchanged ==
    [][\A source \in OpenInputs, current_price \in TickerPrices, volatility \in Volatilities :
        (can_open_position(Ledger, source[1]).result
            /\ ExecuteSignalStep(source, current_price, volatility, TRUE))
        => /\ C3_AcceptsOrRejects(source, current_price)
           /\ lastCall'.result # "opened"
                => (daily_pnl' = daily_pnl /\ daily_trades' = daily_trades)]_vars

\* C3, amended: given can_open_position holds for the symbol, open rejects a LONG when
\* stop <= liquidation price and accepts it when stop > liquidation price (SHORT: rejects
\* when stop >= liquidation price, accepts when stop < liquidation price); on rejection
\* positions, trades and current_capital are unchanged, and daily_pnl and daily_trades are
\* unchanged unless the daily reset is due, in which case the rejected open zeroes them.
C3_StopCheck ==
    [][\A source \in OpenInputs, current_price \in TickerPrices, volatility \in Volatilities :
        (can_open_position(Ledger, source[1]).result
            /\ ExecuteSignalStep(source, current_price, volatility, TRUE))
        => /\ C3_AcceptsOrRejects(source, current_price)
           /\ lastCall'.result # "opened"
                => /\ daily_pnl' = (IF day_elapsed THEN Zero ELSE daily_pnl)
                   /\ daily_trades' = (IF day_elapsed THEN 0 ELSE daily_trades)]_vars

\* an open that passed can_open_position has just been refused for its stop
C3_Witness ==
    /\ lastCall = Call("execute_signal", "Stop loss too close to liquidation")
    /\ ~HasKey(positions, "BTCUSDT")

\* -(initial_capital * max_daily_loss): -20 for a capital of 1000 and a fraction of 0.02
DailyLossLimit == RatSub(Zero, RatMul(FromInt(InitialCapital), MaxDailyLoss))

\* C4 as stated: once daily_pnl <= -20, and until the daily reset is due, can_open_position
\* returns false for every symbol.
C4_BreakerFromMinus20 ==
    (RatLe(daily_pnl, DailyLossLimit) /\ ~day_elapsed)
        => \A symbol \in Symbols : ~can_open_position(Ledger, symbol).result

\* C4, amended: in every state where daily_pnl < -20 strictly and the daily reset is not
\* due, can_open_position returns false for every symbol; at exactly -20 the breaker is
\* not tripped.
C4_BreakerBelowMinus20 ==
    (RatLt(daily_pnl, DailyLossLimit) /\ ~day_elapsed)
        => \A symbol \in Symbols :
                /\ ~can_open_position(Ledger, symbol).result
                /\ can_open_position(Ledger, symbol).log = "Daily loss limit reached"

\* an open has just been refused by the daily-loss breaker
C4_Witness ==
    /\ RatLt(daily_pnl, DailyLossLimit)
    /\ ~day_elapsed
    /\ lastCall = Call("execute_signal", "Daily loss limit reached")
\* C6: check_positions is idempotent: for every ledger state and exchange snapshot, a
\* second call with the same snapshot closes or removes no further Position, appends no
\* further Trade and leaves current_capital and daily_pnl as the first call left them.
C6_ReconcileIdempotent ==
    \A active_on_aster \in SUBSET Symbols :
    \A mark \in [active_on_aster -> MarkPrices],
       responses \in [Keys(positions) \ active_on_aster -> FillResponses] :
        LET first == check_positions(Ledger, active_on_aster, mark, responses, Symbols)
        IN  \A again \in [Keys(first.positions) \ active_on_aster -> FillResponses] :
                LET second == check_positions(first, active_on_aster, mark, again, Symbols)
                IN  /\ second.positions = first.positions
                    /\ second.trades = first.trades
                    /\ second.current_capital = first.current_capital
                    /\ second.daily_pnl = first.daily_pnl

\* a reconciliation has just closed a position the exchange no longer holds
C6_Witness ==
    /\ lastCall = Call("check_positions", "closed")
    /\ trades # <<>>

\* realized PnL values the exchange may report for a close
RealizedPnls == {Zero, Rat(25, 2), FromInt(-20)}

\* C7: when close_position is called with a realized PnL r (r = 0 included), the Trade it
\* appends has pnl exactly r, whatever the side, entry price and exit price.
C7_RealizedPnlOverrides ==
    \A i \in 1..Len(positions), exit_price \in ExitPrices \cup TickerPrices, r \in RealizedPnls :
        LET closed == close_position(Ledger, positions[i].symbol, exit_price,
                                     positions[i].strategy, Some(r), TRUE)
        IN  /\ closed.result = "trade"
            /\ Len(closed.ledger.trades) = Len(trades) + 1
            /\ closed.ledger.trades[Len(trades) + 1].pnl = r
            /\ closed.ledger.trades[Len(trades) + 1].symbol = positions[i].symbol

\* a position entered at 200 was closed at 190 with a realized PnL of 0
C7_Witness ==
    /\ lastCall = Call("check_positions", "closed")
    /\ \E i \in 1..Len(trades) :
            /\ trades[i].pnl = Zero
            /\ trades[i].exit_price # trades[i].entry_price

\* C8: a close_position(s, exit price) after a successful open of s removes s from the open
\* positions and appends exactly one Trade, whose symbol is s and whose side, entry price,
\* quantity and leverage are those of the Position; after it the exclusivity gate no
\* longer refuses s.
C8_RoundTrip ==
    [][\A symbol \in Symbols, current_price \in ExitPrices :
        ManualClose(symbol, current_price)
        => /\ ~HasKey(positions', symbol)
           /\ Keys(positions') = Keys(positions) \ {symbol}
           /\ Len(trades') = Len(trades) + 1
           /\ SubSeq(trades', 1, Len(trades)) = trades
           /\ LET trade == trades'[Len(trades')]
                  position == Get(positions, symbol)
              IN  /\ trade.symbol = symbol
                  /\ trade.side = position.side
                  /\ trade.entry_price = position.entry_price
                  /\ trade.quantity = position.quantity
                  /\ trade.leverage = position.leverage
                  /\ trade.exit_price = current_price
           /\ can_open_position(Ledger', symbol).log # "Already in position"]_vars

\* a symbol that went through an open and a close is open again
C8_Witness ==
    /\ HasKey(positions, "BTCUSDT")
    /\ \E i \in 1..Len(trades) :
            trades[i].symbol = "BTCUSDT" /\ trades[i].strategy = "manual_close"

\* C9: every Position in the ledger has quantity > 0 and leverage in (0, max_leverage],
\* whether a strategy signal, a manual trade or the startup recovery created it.
C9_QuantityAndLeverageInRange ==
    \A i \in 1..Len(positions) :
        /\ RatLt(Zero, positions[i].quantity)
        /\ 0 < positions[i].leverage
        /\ positions[i].leverage <= MaxLeverage
(***************************************************************************)
(* Properties of the strategy selector.                                    *)
(***************************************************************************)
\* C5: select_strategy never returns a strategy whose enabled flag is false; in particular
\* a strategy disabled after 10 outcomes with a win rate of 0.30 is not returned until
\* later outcomes re-enable it.
C5_NeverSelectsDisabled ==
    [][\A regime \in Regimes, regime_confidence \in RegimeConfidences :
        SelectStrategy(regime, regime_confidence)
        => (selected' # None => strategy_stats[selected'].enabled)]_vars

\* the enabled flag C10 prescribes after an outcome brought the counts to wins and losses
C10_Enabled(wins, losses, enabled) ==
    IF wins + losses < 10 THEN enabled
    ELSE IF 100 * wins < 35 * (wins + losses) THEN FALSE
    ELSE IF 100 * wins > 45 * (wins + losses) THEN TRUE
    ELSE enabled

\* C10: update_strategy_performance changes a strategy's enabled flag only once at least 10
\* outcomes are recorded for it: it disables the strategy when its win rate is below 0.35,
\* re-enables a disabled strategy only when its win rate is above 0.45, and leaves the flag
\* as it is when the win rate lies in [0.35, 0.45] or fewer than 10 outcomes exist.
C10_EnabledFlagThresholds ==
    [][\A strategy_name \in OutcomeStrategies, outcome \in Outcomes :
        UpdateStrategyPerformance(strategy_name, outcome.pnl, outcome.win)
        => \A name \in DOMAIN strategy_stats :
                IF name = strategy_name
                THEN /\ strategy_stats'[name].wins + strategy_stats'[name].losses
                            = strategy_stats[name].wins + strategy_stats[name].losses + 1
                     /\ strategy_stats'[name].enabled =
                            C10_Enabled(strategy_stats'[name].wins, strategy_stats'[name].losses,
                                        strategy_stats[name].enabled)
                ELSE strategy_stats'[name] = strategy_stats[name]]_vars

\* a strategy disabled at its 10th outcome (3 wins) was re-enabled by its 13th (6 wins)
C10_Witness ==
    /\ "Breakout Scalping" \in DOMAIN strategy_stats
    /\ LET stats == strategy_stats["Breakout Scalping"]
       IN  /\ stats.wins = 6
           /\ stats.losses = 7
           /\ stats.enabled
           /\ Cardinality({i \in 1..10 : stats.recent_trades[i].win}) = 3
(***************************************************************************)
(* Properties of the gates and of the liquidation price.                   *)
(***************************************************************************)
\* the symbols can_open_position is asked about: the traded ones and one never held
AskedSymbols == Symbols \cup {"SOLUSDT"}
\* capitals around the floor of half the initial capital
CapitalLevels == {FromInt(400), FromInt(500), FromInt(501), FromInt(1000)}

\* one of the four refusal conditions holds for the symbol on ledger L
C11_SomeGateHolds(L, symbol) ==
    \/ RatLt(L.daily_pnl, RatSub(Zero, RatMul(FromInt(InitialCapital), MaxDailyLoss)))
    \/ Len(L.positions) >= MaxOpenPositions
    \/ \E i \in 1..Len(L.positions) : L.positions[i].symbol = symbol
    \/ RatLe(L.current_capital, RatMul(FromInt(InitialCapital), Rat(1, 2)))

\* what can_open_position leaves of ledger L: everything but a due daily reset
C11_OnlyDueReset(L, after) ==
    /\ after.positions = L.positions
    /\ after.trades = L.trades
    /\ after.current_capital = L.current_capital
    /\ after.daily_pnl = (IF L.day_elapsed THEN Zero ELSE L.daily_pnl)
    /\ after.daily_trades = (IF L.day_elapsed THEN 0 ELSE L.daily_trades)

\* C11 as stated: can_open_position(symbol) returns false if and only if, on the ledger it
\* is called on, daily_pnl < -(capital * max_daily_loss), or the open positions number
\* max_open_positions or more, or the symbol is held, or current_capital <= half the
\* initial capital; it changes nothing but a due daily reset.
C11_GatesOnLedgerAsCalled ==
    \A symbol \in AskedSymbols, capital \in CapitalLevels :
        LET L == [Ledger EXCEPT !.current_capital = capital]
            can == can_open_position(L, symbol)
        IN  /\ can.result = ~C11_SomeGateHolds(L, symbol)
            /\ C11_OnlyDueReset(L, can.ledger)

\* C11, amended: can_open_position(symbol) first performs a due daily reset and then
\* returns false if and only if, on the ledger after that reset, daily_pnl <
\* -(capital * max_daily_loss), or the open positions number max_open_positions or more,
\* or the symbol is held, or current_capital <= half the initial capital; it changes
\* nothing but that reset.
C11_GatesAfterDueReset ==
    \A symbol \in AskedSymbols, capital \in CapitalLevels :
        LET L == [Ledger EXCEPT !.current_capital = capital]
            can == can_open_position(L, symbol)
        IN  /\ can.result = ~C11_SomeGateHolds(can.ledger, symbol)
            /\ C11_OnlyDueReset(L, can.ledger)

\* an open has just been refused because the ledger is full
C11_Witness ==
    /\ lastCall = Call("execute_signal", "Max positions limit reached")
    /\ Len(positions) >= MaxOpenPositions
(***************************************************************************)
(* Properties of the regime detector.                                      *)
(***************************************************************************)
\* every hypothesis but MIXED scores zero
OnlyMixedScores(signals) ==
    /\ high_vol_trending_score(signals) = Zero
    /\ low_vol_ranging_score(signals) = Zero
    /\ momentum_exhaustion_score(signals) = Zero

\* C12: detect_regime returns confidence 0.5 whenever every regime hypothesis other than
\* MIXED scores zero.
C12_BaselineConfidenceIsHalf ==
    [][\A signals \in SignalProfiles, has_timestamp \in BOOLEAN :
        (OnlyMixedScores(signals) /\ UpdateRegime(signals, has_timestamp))
        => current_confidence' = Rat(1, 2)]_vars

\* signals that sit exactly on every threshold of detect_regime
ThresholdSignals ==
    RegimeSignals(Rat(3, 100), FromInt(40), Rat(3, 10), Rat(6, 10), Rat(1, 1000), FromInt(75), Rat(1, 2), Rat(7, 10))

InUnitInterval(x) == RatLe(Zero, x) /\ RatLe(x, One)

\* C13: for the signals and every regime state reached, detect_regime returns one of the
\* five regimes and a confidence in [0, 1], also when the x1.1 persistence boost applies.
C13_RegimeAndConfidenceInRange ==
    /\ current_regime \in MarketRegimes
    /\ InUnitInterval(current_confidence)
    /\ \A i \in 1..Len(regime_history) :
            /\ regime_history[i].regime \in MarketRegimes
            /\ InUnitInterval(regime_history[i].confidence)
    /\ \A signals \in SignalProfiles \cup {ThresholdSignals} :
            LET detected == detect_regime(signals, current_regime,
                                regime_persistence_of(regime_history, current_regime))
            IN  /\ detected.regime \in MarketRegimes
                /\ InUnitInterval(detected.confidence)

\* the trending regime persisted over 13 of the last 20 updates and its confidence of
\* 18/19 was boosted up to the cap
C13_Witness ==
    /\ current_regime = "high_vol_trending"
    /\ RatLt(Rat(6, 10), regime_persistence_of(regime_history, current_regime))
    /\ current_confidence = One
(***************************************************************************)
(* Properties of the liquidation price.                                    *)
(***************************************************************************)
\* entry prices and leverages the liquidation price is computed for; 1/mmr is 200
LiquidationEntries == {100, 200, 1000}
LiquidationLeverages == {1, 2, 5, 10, 20, 45, 100, 125, 199, 200, 250}

\* entry * (1 - 1/leverage + 5/1000) and entry * (1 + 1/leverage - 5/1000), as fractions
LongLiquidationFormula(entry, leverage) ==
    Rat(entry * (1000 * leverage - 1000 + 5 * leverage), 1000 * leverage)
ShortLiquidationFormula(entry, leverage) ==
    Rat(entry * (1000 * leverage + 1000 - 5 * leverage), 1000 * leverage)

Called == {k \in 1..Len(analysis.calls) : analysis.calls[k].called}

\* C15: analyze_with_best_strategy calls analyze in non-increasing score order, never on a
\* strategy whose score is below 0.2 (so never on a disabled one), returns the first signal
\* and calls no strategy after it, goes on to the next strategy after an exception, and
\* returns None when no strategy it tried gave a signal.
C15_FallbackChain ==
    /\ \A j, k \in Called : j < k => RatLe(analysis.calls[k].score, analysis.calls[j].score)
    /\ \A k \in Called :
        /\ RatLe(Rat(2, 10), analysis.calls[k].score)
        /\ analysis.calls[k].enabled
    /\ analysis.result # NoSignal
        => \E k \in Called :
            /\ analysis.calls[k].outcome = "signal"
            /\ analysis.result[1].selected_strategy = analysis.calls[k].name
            /\ \A j \in Called : j < k => analysis.calls[j].outcome # "signal"
            /\ \A j \in Called : j <= k
    /\ \A k \in Called :
        analysis.calls[k].outcome # "signal"
        => \A j \in (k + 1)..Len(analysis.calls) :
            RatLe(Rat(2, 10), analysis.calls[j].score)
            /\ (\A i \in (k + 1)..(j - 1) : i \in Called => analysis.calls[i].outcome # "signal")
            => j \in Called
    /\ analysis.result = NoSignal
        => \A k \in Called : analysis.calls[k].outcome # "signal"

\* the first strategy raised, the second was then called and its signal returned
C15_Witness ==
    /\ Len(analysis.calls) = 2
    /\ Called = {1, 2}
    /\ analysis.calls[1].outcome = "raise"
    /\ analysis.calls[2].outcome = "signal"
    /\ analysis.result # NoSignal
    /\ analysis.result[1].selected_strategy = analysis.calls[2].name
(***************************************************************************)
(* Properties of select_strategy.                                          *)
(***************************************************************************)
\* the scores select_strategy computes for the registered strategies
SelectScores(regime, regime_confidence) ==
    [i \in 1..Len(strategies) |->
        calculate_strategy_score(strategy_stats, strategies[i], regime, regime_confidence)]

\* C16: select_strategy returns the strategy with the maximum score; when several tie for the
\* maximum, the first-registered one is returned; the result is a function of the selector's
\* state and the regime.
C16_FirstMaximum ==
    /\ strategies # <<>>
        => \A regime \in Regimes, regime_confidence \in RegimeConfidences :
            LET scores == SelectScores(regime, regime_confidence)
                result == select_strategy(strategies, strategy_stats, regime, regime_confidence)
            IN  \E i \in 1..Len(strategies) :
                    /\ result = <<strategies[i], scores[i]>>
                    /\ \A j \in 1..Len(strategies) : RatLe(scores[j], scores[i])
                    /\ \A j \in 1..(i - 1) : RatLt(scores[j], scores[i])
    /\ selected # None => \E i \in 1..Len(strategies) : selected = strategies[i]

\* both registered strategies score the same in a ranging market, and the first-registered
\* one has been selected
C16_Witness ==
    /\ Len(strategies) = 2
    /\ LET scores == SelectScores("low_vol_ranging", Rat(3, 5))
       IN  scores[1] = scores[2]
    /\ SumTrades(strategy_stats, strategies) = 0
    /\ selected = strategies[1]
    /\ select_strategy(strategies, strategy_stats, "low_vol_ranging", Rat(3, 5))[1] = selected
(***************************************************************************)
(* Properties of the clean-up of check_positions.                          *)
(***************************************************************************)
\* the fills request raised, or returned no fills
NoTradeData(response) == response.error \/ response.fills = <<>>

\* C17: in check_positions, when the fills of a tracked symbol that the snapshot no longer
\* holds cannot be fetched (the request fails or returns no fills), its Position is removed
\* and no Trade is appended for it; current_capital and daily_pnl are unchanged by it; and
\* check_positions goes on to the remaining symbols, closing those whose fills it gets.
C17_UnfetchableFillsDropPosition ==
    \A active_on_aster \in SUBSET Symbols :
    \A mark \in [active_on_aster -> MarkPrices],
       responses \in [Keys(positions) \ active_on_aster -> FillResponses] :
        LET after == check_positions(Ledger, active_on_aster, mark, responses, Symbols)
            absent == Keys(positions) \ active_on_aster
            appended == {after.trades[i].symbol : i \in (Len(trades) + 1)..Len(after.trades)}
        IN  /\ \A symbol \in absent :
                /\ ~HasKey(after.positions, symbol)
                /\ NoTradeData(responses[symbol]) <=> symbol \notin appended
            /\ Len(after.trades) = Len(trades) + Cardinality(appended)
            /\ (\A symbol \in absent : NoTradeData(responses[symbol]))
                => /\ after.trades = trades
                   /\ after.current_capital = current_capital
                   /\ after.daily_pnl = daily_pnl

\* a reconciliation has just removed a position without recording a trade
C17_Witness ==
    /\ lastCall = Call("check_positions", "removed")
    /\ Len(positions) < MaxOpenPositions
(***************************************************************************)
(* Properties of signal validation.                                        *)
(***************************************************************************)
\* C18: no signal that lacks a required key, or whose leverage is outside (0, 100] or whose
\* confidence is outside [0, 1], reaches calculate_position_size or open_position; so every
\* Position that execute_signal opened has a leverage in (0, 100].
C18_InvalidSignalsDiscarded ==
    \A i \in 1..Len(positions) :
        positions[i].strategy # "recovered"
        => (0 < positions[i].leverage /\ positions[i].leverage <= 100)
(***************************************************************************)
(* Properties of the control loop.                                         *)
(***************************************************************************)
\* C19: an exception raised anywhere in an iteration never ends the loop of start: the loop
\* returns only with is_running cleared; while is_running is set, after every iteration,
\* failed or not, another one eventually starts; and every symbol is visited in an iteration
\* that reaches the for loop of analyze_markets, whatever happened for the symbols before it.
C19_LoopSurvivesErrors ==
    /\ [](loop_pc = "returned" => ~is_running)
    /\ [](loop_pc = "sleep" /\ ~iteration_error
            => \A i \in 1..Len(LoopSymbols) : analysis_log[LoopSymbols[i]] # "none")
    /\ (is_running /\ loop_pc = "sleep") ~> (loop_pc = "run_iteration" \/ ~is_running)

\* the analysis of the first symbol raised and the second symbol was analysed all the same,
\* in an iteration that followed a failed one
C19_Witness ==
    /\ iteration_error
    /\ loop_pc = "symbols"
    /\ analysis_log["BTCUSDT"] = "error"
    /\ analysis_log["ETHUSDT"] = "analysed"
\* C20: while the control loop runs, a request to the read-only snapshot interface is always
\* eventually served; the loop never blocks it, not with a failing and not with a sleeping
\* iteration.
C20_RequestEventuallyServed == (request = "pending") ~> (request = "served")
(***************************************************************************)
(* Properties of the requests sent to the exchange.                        *)
(***************************************************************************)
\* C21: with dry_run set the bot sends no create_order, cancel_order or change_leverage
\* request in the startup clean-up, in signal execution or in check_positions.
C21_DryRunSendsNoOrders ==
    (/\ dry_run
     /\ lastCall.op \in {"sync_positions_from_exchange", "execute_signal", "analyze_markets",
                         "check_positions"})
        => exchange_calls = {}

\* in dry-run a recovered SHORT with recorded stop and target order ids has just been closed
\* by check_positions
C21_Witness ==
    /\ dry_run
    /\ lastCall = Call("check_positions", "closed")
    /\ trades # <<>>
    /\ trades[Len(trades)].strategy = "recovered"
    /\ exchange_calls = {}
\* the order lists get_open_orders may answer: the resting orders with some of them gone
OrderLists ==
    {SelectSeq(RestingOrders, LAMBDA order : order.orderId \in ids) :
        ids \in SUBSET {RestingOrders[i].orderId : i \in 1..Len(RestingOrders)}}

C23_ReconcileFrame ==
    \A active_on_aster \in SUBSET Symbols :
    \A mark \in [active_on_aster -> MarkPrices],
       responses \in [Keys(positions) \ active_on_aster -> FillResponses] :
        LET after == check_positions(Ledger, active_on_aster, mark, responses, Symbols)
            calls == cancel_recorded_orders(Ledger, active_on_aster)
        IN  /\ Keys(after.positions) \subseteq active_on_aster
            /\ \A i \in 1..Len(positions) :
                LET position == positions[i]
                IN  IF position.symbol \in active_on_aster
                    THEN /\ HasKey(after.positions, position.symbol)
                         /\ LET kept == Get(after.positions, position.symbol)
                            IN  /\ kept.side = position.side
                                /\ kept.entry_price = position.entry_price
                                /\ kept.quantity = position.quantity
                                /\ kept.leverage = position.leverage
                                /\ kept.stop_loss = position.stop_loss
                                /\ kept.take_profit = position.take_profit
                    ELSE ~dry_run =>
                         /\ position.sl_order_id # None =>
                                ExchangeCall("cancel_order", position.symbol,
                                             position.sl_order_id) \in calls
                         /\ position.tp_order_id # None =>
                                ExchangeCall("cancel_order", position.symbol,
                                             position.tp_order_id) \in calls

\* a live check_positions has removed the SHORT and sent the cancel requests for its stop and
\* its target order, and has kept the LONG
C23_Witness ==
    /\ ~dry_run
    /\ lastCall.op = "check_positions"
    /\ ~HasKey(positions, "ETHUSDT")
    /\ HasKey(positions, "BTCUSDT")
    /\ exchange_calls = {ExchangeCall("cancel_order", "ETHUSDT", "SL1"),
                         ExchangeCall("cancel_order", "ETHUSDT", "TP1")}
\* the entry that an update which stored this regime and confidence puts in the history
RecordedEntry(regime, confidence) == [regime |-> regime, confidence |-> confidence]

\* appending one entry to a history of at most 1000, the oldest dropped first
AppendedHistory(history, entry) ==
    IF Len(history) < 1000 THEN Append(history, entry) ELSE Append(Tail(history), entry)

\* C24 as stated: every update appends its result to the history, the oldest entry dropped
\* first beyond 1000.
C24_EveryUpdateAppends ==
    [][regime_history' =
         AppendedHistory(regime_history, RecordedEntry(current_regime', current_confidence'))]_regimeVars

\* C24: the history never holds more than 1000 entries, and an update either appends its own
\* (regime, confidence) result, the oldest entry dropped first beyond 1000, or (when it came
\* without a timestamp) leaves the history as it was: the history is the results of the most
\* recent timestamped updates in call order.  The result of the next update is computed in
\* every state, with and without a timestamp.
C24_TimestampedUpdatesAppend ==
    /\ [](Len(regime_history) <= 1000)
    /\ [](LET detected == detect_regime(TrendingSignals, current_regime,
                               regime_persistence_of(regime_history, current_regime))
          IN  /\ recorded_history(regime_history, detected, TRUE) =
                    AppendedHistory(regime_history, detected)
              /\ recorded_history(regime_history, detected, FALSE) = regime_history)
    /\ [][\/ regime_history' = regime_history
          \/ regime_history' =
               AppendedHistory(regime_history,
                               RecordedEntry(current_regime', current_confidence'))]_regimeVars

\* the history is full and its oldest entry is already a boosted one: the unboosted results of
\* the first updates have been dropped
C24_Witness ==
    /\ Len(regime_history) = 1000
    /\ regime_history[1].confidence = One
    /\ regime_history[1000].regime = "high_vol_trending"
\* C25: in a live bot, whenever execute_signal has sent the MARKET entry order for a symbol,
\* the same call has opened the Position in the ledger: the exchange holds no entry that the
\* ledger refused.
C25_EntryOrderIsRecorded ==
    \A symbol \in Symbols :
        (/\ lastCall.op = "execute_signal"
         /\ ExchangeCall("create_order", symbol, "MARKET") \in exchange_calls)
            => /\ lastCall.result = "opened"
               /\ HasKey(positions, symbol)
\* C26: in every reachable state current_capital is initial_capital plus the sum of pnl over
\* the in-memory trades, however many of them reached the database; and a close_position
\* whose save fails removes the Position, appends its Trade and applies its pnl exactly as
\* one whose save goes through.
C26_CapitalIsInitialPlusPnl ==
    /\ current_capital = RatAdd(FromInt(InitialCapital), SumPnl(trades))
    /\ db_trades <= Len(trades)
    /\ \A i \in 1..Len(positions), exit_price \in ExitPrices \cup MarkPrices :
        LET symbol == positions[i].symbol
            failed == close_position(Ledger, symbol, exit_price, "manual_close", NoFloat, FALSE)
            saved == close_position(Ledger, symbol, exit_price, "manual_close", NoFloat, TRUE)
            pnl == trade_pnl(positions[i], exit_price, NoFloat)
        IN  /\ failed.result = "trade"
            /\ ~failed.saved
            /\ failed.ledger = saved.ledger
            /\ ~HasKey(failed.ledger.positions, symbol)
            /\ Len(failed.ledger.trades) = Len(trades) + 1
            /\ failed.ledger.trades[Len(trades) + 1].symbol = symbol
            /\ failed.ledger.trades[Len(trades) + 1].pnl = pnl
            /\ failed.ledger.current_capital = RatAdd(current_capital, pnl)

\* a close has been booked in memory with its pnl while the trades table has no row for it
C26_Witness ==
    /\ Len(trades) = 1
    /\ db_trades = 0
    /\ trades[1].pnl # Zero
    /\ current_capital = RatAdd(FromInt(InitialCapital), trades[1].pnl)
    /\ ~HasKey(positions, trades[1].symbol)
\* the realized PnL of the fills of round trip k
RECURSIVE TripPnl(_, _)
TripPnl(fills, k) ==
    IF fills = <<>> THEN Zero
    ELSE RatAdd(IF Head(fills).trip = k THEN Head(fills).realizedPnl ELSE Zero,
                TripPnl(Tail(fills), k))

\* the realized PnL of the fills of the round trips 1..k
RECURSIVE TripsPnl(_, _)
TripsPnl(fills, k) ==
    IF fills = <<>> THEN Zero
    ELSE RatAdd(IF Head(fills).trip <= k THEN Head(fills).realizedPnl ELSE Zero,
                TripsPnl(Tail(fills), k))

\* C27: over successive round trips on one symbol, the pnl of the Trade that check_positions
\* books for the k-th closed position is the realized PnL of the fills of that position only,
\* so current_capital and daily_pnl have counted each fill's realized PnL once.
C27_EachFillCountedOnce ==
    /\ \A k \in 1..Len(trades) : trades[k].pnl = TripPnl(user_trades, k)
    /\ current_capital =
            RatAdd(FromInt(InitialCapital), TripsPnl(user_trades, Len(trades)))
\* the Trades of the history that carry the name of a strategy
TradesOf(name) == {k \in 1..Len(trades) : trades[k].strategy = name}

\* C28: whenever the running loop has closed Positions opened from a registered strategy's
\* signal, the strategy's stats in the selector have recorded the outcomes: wins + losses is
\* the number of Trades attributed to the strategy.
C28_OutcomesReachSelector ==
    \A i \in 1..Len(strategies) :
        strategy_stats[strategies[i]].wins + strategy_stats[strategies[i]].losses
            = Cardinality(TradesOf(strategies[i]))
\* C29: after any sequence of startup recovery, opens, closes and check_positions, positions
\* holds at most max_open_positions entries.
C29_AtMostMaxOpenPositions == Len(positions) <= MaxOpenPositions
\* the names of the strategies of src/strategies
StrategyNames ==
    {"Breakout Scalping", "Funding Arbitrage", "Liquidation Cascade", "Market Making",
     "Momentum Reversal", "Order Flow Imbalance", "Support/Resistance Bounce",
     "VWAP Reversion"}

\* regime_score of calculate_strategy_score after the adjustment by the regime confidence
RegimeFit(strategy_name, regime, regime_confidence) ==
    RatMul(regime_match(get_recommended_strategies(regime), strategy_name), regime_confidence)

Recommended(strategy_name, regime) ==
    \E i \in 1..Len(get_recommended_strategies(regime)) :
        get_recommended_strategies(regime)[i] = strategy_name

\* C30: in a selector that has been built, for every regime and the same regime confidence,
\* a strategy that is in get_recommended_strategies(regime) gets a regime score that is not
\* lower than that of a strategy that is not in it.
C30_RecommendedNeverBelowOthers ==
    strategies # <<>> =>
        \A regime \in MarketRegimes, regime_confidence \in RegimeConfidences \cup {One} :
        \A inside \in StrategyNames, outside \in StrategyNames :
            (Recommended(inside, regime) /\ ~Recommended(outside, regime))
                => RatLe(RegimeFit(outside, regime, regime_confidence),
                         RegimeFit(inside, regime, regime_confidence))

====
